---- MODULE Spec2Model ----
(***************************************************************************)
(* Model of m913-ctl: the packet codec, the action table and the packet    *)
(* builders of src/protocol.cpp and src/data.cpp.                          *)
(*                                                                         *)
(* A Packet is a function 0..16 -> 0..255 and an ActionBytes a function    *)
(* 0..3 -> 0..255, so that indices read as in the source.  std::vector is  *)
(* a sequence (1-based: element i of the source is element i+1 here),      *)
(* std::string is a string, std::map a set of <<key, value>> pairs or, for *)
(* the maps keyed by a button index, a function whose DOMAIN is the key    *)
(* set.                                                                    *)
(***************************************************************************)
EXTENDS Integers, Sequences, FiniteSets, TLC

VARIABLES
    g_multikey_actions,  \* protocol.cpp:10  button index -> action string
    call,                \* the call whose value the client holds: [fn, args]
    ret,                 \* the value it returned
    aborted,             \* the process was terminated inside that call
    pc,                  \* main.cpp:620-718  where the configuration session is
    queue,               \* the setting categories main has still to send
    did_config,          \* main.cpp:621
    pkts,                \* main.cpp:124  the sequence send_sequence is sending
    pkt_i,               \* main.cpp:128  i, as a 1-based index into pkts
    attempt,             \* main.cpp:113
    got,                 \* main.cpp:112
    tx,                  \* usb.cpp:61  r of the last control transfer
    rx,                  \* usb.cpp:107-114  r and transferred of the last transfer
    wire,                \* the packets the control transfers delivered, in order
    seqs,                \* the sequences handed to send_sequence, in order
    fault,               \* a transfer failed and UsbMouse threw
    exit_code,           \* main.cpp:405
    handle_open,         \* usb.h:62  _handle != nullptr
    usb_pc,              \* main.cpp:383-718  where main is with its UsbMouse
    handle,              \* usb.h:67  _handle != nullptr
    detached,            \* usb.h:69-70  _detached_iface0, _detached_iface1
    claimed,             \* libusb: the interfaces this handle has claimed
    kernel_driver,       \* libusb: the interfaces a kernel driver is bound to
    calls,               \* the libusb calls made so far, counted
    exit_path,           \* the way main left, "" while it runs
    g_stop,              \* main.cpp:18
    handler,             \* main.cpp:493 / 557  handle_sigint is installed
    lpc,                 \* main.cpp:451-593  where main is in its listen loops
    opts,                \* main.cpp: raw_send_hex, do_scan_sub, do_listen, listen_ep
    ep_i,                \* main.cpp:498 / 573  index of the endpoint polled
    polls,               \* the receive attempts each listen loop has started
    lfault,              \* a transfer of the diagnostic blocks failed
    apc,                 \* main.cpp:89-131  where send_sequence is with the device
    n_pkts,              \* main.cpp:124  pkts.size()
    cmd_i,               \* main.cpp:128  the packet send_cmd is sending, from 1
    att,                 \* main.cpp:113  attempt
    agot,                \* main.cpp:112  got
    in_device,           \* device: accepted packets not acknowledged yet
    ep_in,               \* device: acknowledgements waiting on EP 0x82, oldest first
    consumed             \* the acknowledgements send_cmd read, with their window

builderVars == <<g_multikey_actions, call, ret, aborted>>

sessVars == <<pc, queue, did_config, pkts, pkt_i, attempt, got, tx, rx, wire, seqs, fault,
              exit_code, handle_open>>

usbVars == <<usb_pc, handle, detached, claimed, kernel_driver, calls, exit_path>>

listenVars == <<g_stop, handler, lpc, opts, ep_i, polls, lfault>>

ackVars == <<apc, n_pkts, cmd_i, att, agot, in_device, ep_in, consumed>>

extVars == <<usbVars, listenVars, ackVars>>

vars == <<g_multikey_actions, call, ret, aborted, pc, queue, did_config, pkts, pkt_i,
          attempt, got, tx, rx, wire, seqs, fault, exit_code, handle_open,
          usb_pc, handle, detached, claimed, kernel_driver, calls, exit_path,
          g_stop, handler, lpc, opts, ep_i, polls, lfault,
          apc, n_pkts, cmd_i, att, agot, in_device, ep_in, consumed>>

M913_PACKET_SIZE == 17

---------------------------------------------------------------------------
(* Fixed-width integer helpers.                                            *)

\* static_cast<uint8_t>(x), x & 0xFF
U8(x) == x % 256

RECURSIVE BitAnd(_, _)
\* a & b on non-negative integers
BitAnd(a, b) ==
    IF a = 0 \/ b = 0 THEN 0
    ELSE (a % 2) * (b % 2) + 2 * BitAnd(a \div 2, b \div 2)

RECURSIVE BitOr(_, _)
\* a | b on non-negative integers
BitOr(a, b) ==
    IF a = 0 THEN b
    ELSE IF b = 0 THEN a
    ELSE (IF a % 2 = 1 \/ b % 2 = 1 THEN 1 ELSE 0) + 2 * BitOr(a \div 2, b \div 2)

\* std::array<uint8_t, 4>{a, b, c, d}
AB(a, b, c, d) == [i \in 0..3 |-> <<a, b, c, d>>[i + 1]]

\* Packet p = {} : 17 zero bytes
ZeroPacket == [i \in 0..(M913_PACKET_SIZE - 1) |-> 0]

---------------------------------------------------------------------------
(* Data tables of src/data.cpp.                                            *)

\* data.cpp:13  name -> action bytes
mouse_actions ==
    { <<"left", AB(\h01, \h01, \h00, \h53)>>, <<"right", AB(\h01, \h02, \h00, \h52)>>,
      <<"middle", AB(\h01, \h04, \h00, \h50)>>, <<"backward", AB(\h01, \h08, \h00, \h4c)>>,
      <<"forward", AB(\h01, \h10, \h00, \h44)>>, <<"dpi-", AB(\h02, \h03, \h00, \h50)>>,
      <<"dpi+", AB(\h02, \h02, \h00, \h51)>>, <<"dpi-cycle", AB(\h02, \h01, \h00, \h52)>>,
      <<"dpi-loop", AB(\h02, \h01, \h00, \h52)>>, <<"led_toggle", AB(\h08, \h00, \h00, \h4d)>>,
      <<"rgb_toggle", AB(\h08, \h00, \h00, \h4d)>>, <<"none", AB(\h00, \h00, \h00, \h55)>>,
      <<"disable", AB(\h00, \h00, \h00, \h55)>>, <<"fire", AB(\h04, \h3a, \h03, \h14)>>,
      <<"three_click", AB(\h04, \h32, \h03, \h1c)>>, <<"polling_switch", AB(\h07, \h00, \h00, \h4e)>>,
      <<"media_play", AB(\h92, \h00, \hcd, \h00)>>, <<"media_player", AB(\h92, \h01, \h83, \h01)>>,
      <<"media_next", AB(\h92, \h00, \hb5, \h00)>>, <<"media_prev", AB(\h92, \h00, \hb6, \h00)>>,
      <<"media_stop", AB(\h92, \h00, \hb7, \h00)>>, <<"media_vol_up", AB(\h92, \h00, \he9, \h00)>>,
      <<"media_vol_down", AB(\h92, \h00, \hea, \h00)>>, <<"media_mute", AB(\h92, \h00, \he2, \h00)>>,
      <<"media_email", AB(\h92, \h01, \h8a, \h01)>>, <<"media_calc", AB(\h92, \h01, \h92, \h01)>>,
      <<"media_computer", AB(\h92, \h01, \h94, \h01)>>, <<"media_home", AB(\h92, \h02, \h23, \h02)>>,
      <<"media_search", AB(\h92, \h02, \h21, \h02)>>, <<"www_forward", AB(\h92, \h02, \h25, \h02)>>,
      <<"www_back", AB(\h92, \h02, \h24, \h02)>>, <<"www_stop", AB(\h92, \h02, \h26, \h02)>>,
      <<"www_refresh", AB(\h92, \h02, \h27, \h02)>>, <<"www_favorites", AB(\h92, \h02, \h2a, \h02)>>,
      <<"favorites", AB(\h92, \h02, \h2a, \h02)>> }

\* data.cpp:62  modifier name -> bit of the HID modifier byte
modifier_bits ==
    { <<"ctrl_l", \h01>>, <<"shift_l", \h02>>, <<"alt_l", \h04>>, <<"super_l", \h08>>,
      <<"meta_l", \h08>>, <<"ctrl_r", \h10>>, <<"shift_r", \h20>>, <<"alt_r", \h40>>,
      <<"super_r", \h80>>, <<"meta_r", \h80>>, <<"ctrl", \h01>>, <<"shift", \h02>>,
      <<"alt", \h04>>, <<"super", \h08>>, <<"meta", \h08>> }

\* data.cpp:85  key name -> USB HID usage code.  The alias of "grave" spelled
\* with a backquote (same code 0x35) is left out: a TLA+ string cannot hold it.
key_codes ==
    { <<"a", \h04>>, <<"b", \h05>>, <<"c", \h06>>, <<"d", \h07>>,
      <<"e", \h08>>, <<"f", \h09>>, <<"g", \h0a>>, <<"h", \h0b>>,
      <<"i", \h0c>>, <<"j", \h0d>>, <<"k", \h0e>>, <<"l", \h0f>>,
      <<"m", \h10>>, <<"n", \h11>>, <<"o", \h12>>, <<"p", \h13>>,
      <<"q", \h14>>, <<"r", \h15>>, <<"s", \h16>>, <<"t", \h17>>,
      <<"u", \h18>>, <<"v", \h19>>, <<"w", \h1a>>, <<"x", \h1b>>,
      <<"y", \h1c>>, <<"z", \h1d>>, <<"1", \h1e>>, <<"2", \h1f>>,
      <<"3", \h20>>, <<"4", \h21>>, <<"5", \h22>>, <<"6", \h23>>,
      <<"7", \h24>>, <<"8", \h25>>, <<"9", \h26>>, <<"0", \h27>>,
      <<"enter", \h28>>, <<"return", \h28>>, <<"escape", \h29>>, <<"esc", \h29>>,
      <<"backspace", \h2a>>, <<"tab", \h2b>>, <<"space", \h2c>>, <<"minus", \h2d>>,
      <<"-", \h2d>>, <<"equal", \h2e>>, <<"=", \h2e>>, <<"lbracket", \h2f>>,
      <<"[", \h2f>>, <<"rbracket", \h30>>, <<"]", \h30>>, <<"backslash", \h31>>,
      <<"\\", \h31>>, <<"semicolon", \h33>>, <<";", \h33>>, <<"quote", \h34>>,
      <<"'", \h34>>, <<"grave", \h35>>, <<"comma", \h36>>,
      <<",", \h36>>, <<"dot", \h37>>, <<".", \h37>>, <<"slash", \h38>>,
      <<"/", \h38>>, <<"capslock", \h39>>, <<"f1", \h3a>>, <<"f2", \h3b>>,
      <<"f3", \h3c>>, <<"f4", \h3d>>, <<"f5", \h3e>>, <<"f6", \h3f>>,
      <<"f7", \h40>>, <<"f8", \h41>>, <<"f9", \h42>>, <<"f10", \h43>>,
      <<"f11", \h44>>, <<"f12", \h45>>, <<"f13", \h68>>, <<"f14", \h69>>,
      <<"f15", \h6a>>, <<"f16", \h6b>>, <<"f17", \h6c>>, <<"f18", \h6d>>,
      <<"f19", \h6e>>, <<"f20", \h6f>>, <<"f21", \h70>>, <<"f22", \h71>>,
      <<"f23", \h72>>, <<"f24", \h73>>, <<"printscreen", \h46>>, <<"scrolllock", \h47>>,
      <<"pause", \h48>>, <<"insert", \h49>>, <<"home", \h4a>>, <<"pageup", \h4b>>,
      <<"delete", \h4c>>, <<"end", \h4d>>, <<"pagedown", \h4e>>, <<"right", \h4f>>,
      <<"left", \h50>>, <<"down", \h51>>, <<"up", \h52>>, <<"num0", \h62>>,
      <<"num1", \h59>>, <<"num2", \h5a>>, <<"num3", \h5b>>, <<"num4", \h5c>>,
      <<"num5", \h5d>>, <<"num6", \h5e>>, <<"num7", \h5f>>, <<"num8", \h60>>,
      <<"num9", \h61>>, <<"numenter", \h58>>, <<"numdot", \h63>>, <<"numplus", \h57>>,
      <<"numminus", \h56>>, <<"nummul", \h55>>, <<"numdiv", \h54>>, <<"numlock", \h53>> }

---------------------------------------------------------------------------
(* Data tables of src/protocol.cpp (rows and bytes are read 0-based through *)
(* from_raw and the accessors below).                                      *)

\* protocol.cpp:45  the 8 factory-default mapping packets
default_button_mapping ==
    << <<\h08, \h07, \h00, \h00, \h60, \h08, \h00, \h00, \h00, \h55, \h05, \h00, \h00, \h50, \h00, \h00, \h34>>,
       <<\h08, \h07, \h00, \h00, \h68, \h08, \h05, \h00, \h00, \h50, \h01, \h08, \h00, \h4c, \h00, \h00, \h2c>>,
       <<\h08, \h07, \h00, \h00, \h70, \h08, \h05, \h00, \h00, \h50, \h05, \h00, \h00, \h50, \h00, \h00, \h24>>,
       <<\h08, \h07, \h00, \h00, \h78, \h08, \h01, \h02, \h00, \h52, \h01, \h01, \h00, \h53, \h00, \h00, \h1c>>,
       <<\h08, \h07, \h00, \h00, \h80, \h08, \h05, \h00, \h00, \h50, \h05, \h00, \h00, \h50, \h00, \h00, \h14>>,
       <<\h08, \h07, \h00, \h00, \h88, \h08, \h01, \h04, \h00, \h50, \h04, \h3a, \h03, \h14, \h00, \h00, \h0c>>,
       <<\h08, \h07, \h00, \h00, \h90, \h08, \h05, \h00, \h00, \h50, \h05, \h00, \h00, \h50, \h00, \h00, \h04>>,
       <<\h08, \h07, \h00, \h00, \h98, \h08, \h05, \h00, \h00, \h50, \h05, \h00, \h00, \h50, \h00, \h00, \hfc>> >>

\* protocol.cpp:58  button index -> <<addr_hi, addr_lo>> of its keyboard sub-packets
kb_key_addr ==
    << <<\h01, \h00>>,
       <<\h01, \h20>>,
       <<\h01, \h40>>,
       <<\h01, \h60>>,
       <<\h01, \h80>>,
       <<\h01, \ha0>>,
       <<\h01, \hc0>>,
       <<\h01, \he0>>,
       <<\h02, \h00>>,
       <<\h02, \h20>>,
       <<\h02, \h40>>,
       <<\h02, \h60>>,
       <<\h02, \h80>>,
       <<\h02, \ha0>>,
       <<\h02, \hc0>>,
       <<\h02, \he0>> >>

\* protocol.cpp:140  single-key sub-packet template
kb_key_template ==
    <<\h08, \h07, \h00, \h01, \h60, \h08,
      \h02, \h81, \h21, \h00, \h41, \h21, \h00, \h4f,
      \h00, \h00, \h88>>

\* protocol.cpp:214  marker written into the slot of a keyboard/multimedia button
kb_key_action == AB(\h05, \h00, \h00, \h50)

\* protocol.cpp:307
mod_bits == <<\h01, \h02, \h04, \h08, \h10, \h20, \h40, \h80>>

---------------------------------------------------------------------------
(* Internal helpers.                                                       *)

\* protocol.cpp:186
from_raw(src) == [i \in 0..(M913_PACKET_SIZE - 1) |-> src[i + 1]]

RECURSIVE SumBytes(_, _)
\* protocol.cpp:32-34  s += p[i] for i < n  (uint16_t s)
SumBytes(p, n) == IF n = 0 THEN 0 ELSE (SumBytes(p, n - 1) + p[n - 1]) % 65536

\* mutant: the device-to-host formula of the comment at protocol.cpp:29-31
compute_checksum_DeviceFormula(p) == U8(\h4C - (SumBytes(p, M913_PACKET_SIZE - 1) - p[0]))

\* mutant: the loop bound one too far, the old byte 16 summed as well
compute_checksum_Inclusive(p) == U8(\h55 - SumBytes(p, M913_PACKET_SIZE))

\* protocol.cpp:24
compute_checksum(p) == U8(\h55 - SumBytes(p, M913_PACKET_SIZE - 1))

\* p[idx] = v on a std::array<uint8_t, 17>.  operator[] is unchecked: a store
\* at idx >= 17 lands outside the array and leaves its 17 bytes as they were.
Store(p, idx, v) == IF idx \in DOMAIN p THEN [p EXCEPT ![idx] = v] ELSE p

Min(S) == CHOOSE x \in S : \A y \in S : x <= y

---------------------------------------------------------------------------
(* Strings and the action table (src/data.cpp).                            *)

CharAt(s, i) == SubSeq(s, i, i)

UpperCase == "ABCDEFGHIJKLMNOPQRSTUVWXYZ"
LowerCase == "abcdefghijklmnopqrstuvwxyz"

\* std::tolower in the "C" locale
tolower(c) ==
    LET hits == {i \in 1..Len(UpperCase) : CharAt(UpperCase, i) = c}
    IN  IF hits = {} THEN c ELSE CharAt(LowerCase, CHOOSE i \in hits : TRUE)

RECURSIVE to_lower(_)
\* data.cpp:162
to_lower(s) == IF s = "" THEN "" ELSE tolower(Head(s)) \o to_lower(Tail(s))

RECURSIVE SplitLoop(_, _, _, _)
\* data.cpp:156-157  the getline loop: `part` is the part being read, `parts`
\* the non-empty parts pushed so far
SplitLoop(s, delim, part, parts) ==
    LET pushed == IF part # "" THEN Append(parts, part) ELSE parts
    IN  IF s = "" THEN pushed
        ELSE IF Head(s) = delim THEN SplitLoop(Tail(s), delim, "", pushed)
        ELSE SplitLoop(Tail(s), delim, part \o Head(s), parts)

\* data.cpp:152
split(s, delim) == SplitLoop(s, delim, "", <<>>)

\* std::map::find(key) != end()
Has(map, key) == \E kv \in map : kv[1] = key

\* it->second
Get(map, key) == (CHOOSE kv \in map : kv[1] = key)[2]

RECURSIVE ParseParts(_, _, _, _)
\* data.cpp:203-213 (and the same loop at 241-250): every part is a modifier
\* or a key, else the parse fails
ParseParts(parts, i, mods, keys) ==
    IF i > Len(parts) THEN [ok |-> TRUE, mods |-> mods, keys |-> keys]
    ELSE IF Has(modifier_bits, parts[i])
         THEN ParseParts(parts, i + 1, BitOr(mods, Get(modifier_bits, parts[i])), keys)
    ELSE IF ~Has(key_codes, parts[i])
         THEN [ok |-> FALSE, mods |-> mods, keys |-> keys]
    ELSE ParseParts(parts, i + 1, mods, Append(keys, Get(key_codes, parts[i])))

\* data.cpp:233
parse_multikey(action) ==
    LET parts == split(to_lower(action), "+")
    IN  IF parts = <<>> THEN [ok |-> FALSE, mods |-> 0, keys |-> <<>>]
        ELSE ParseParts(parts, 1, 0, <<>>)

---------------------------------------------------------------------------
(* Button mapping (protocol.cpp:203-387).                                  *)

RECURSIVE ModifierEvents(_, _, _)
\* protocol.cpp:315-316 and 322-323: one event per set bit of mods, LSB first
ModifierEvents(type, mods, i) ==
    IF i > Len(mod_bits) THEN <<>>
    ELSE (IF BitAnd(mods, mod_bits[i]) # 0 THEN <<type, mod_bits[i], \h00>> ELSE <<>>)
         \o ModifierEvents(type, mods, i + 1)

RECURSIVE KeyDownEvents(_, _)
\* protocol.cpp:318-320: keys in the order given
KeyDownEvents(keys, i) ==
    IF i > Len(keys) THEN <<>>
    ELSE <<\h81, keys[i], \h00>> \o KeyDownEvents(keys, i + 1)

RECURSIVE KeyUpEvents(_, _)
\* protocol.cpp:325-327: keys from the last to the first
KeyUpEvents(keys, i) ==
    IF i < 1 THEN <<>>
    ELSE <<\h41, keys[i], \h00>> \o KeyUpEvents(keys, i - 1)

\* mutant: the key-up events in the order of the key-down events
EventList_KeyUpsForward(mods, keys) ==
    ModifierEvents(\h80, mods, 1) \o KeyDownEvents(keys, 1)
    \o ModifierEvents(\h40, mods, 1)
    \o [j \in 1..(3 * Len(keys)) |-> IF j % 3 = 1 THEN \h41 ELSE KeyDownEvents(keys, 1)[j]]

\* protocol.cpp:311-327  evts
EventList(mods, keys) ==
    ModifierEvents(\h80, mods, 1) \o KeyDownEvents(keys, 1)
    \o ModifierEvents(\h40, mods, 1) \o KeyUpEvents(keys, Len(keys))

RECURSIVE SeqSum(_, _)
\* protocol.cpp:333  isum += b for the first n bytes of evts  (uint16_t isum)
SeqSum(s, n) == IF n = 0 THEN 0 ELSE (SeqSum(s, n - 1) + s[n]) % 65536

RECURSIVE StoreEvents(_, _, _, _, _)
\* protocol.cpp:341-342 and 353-354: p[base + i] = evts[from + i] for i < n
StoreEvents(p, base, evts, from, n) ==
    IF n = 0 THEN p
    ELSE Store(StoreEvents(p, base, evts, from, n - 1), base + n - 1, evts[from + n])

\* protocol.cpp:262-287: the modifiers and keys of a 0x90 binding.  A binding
\* with key_count > 1 is re-parsed from the string registered for the button.
BindingKeys(btn_idx, ab, registry) ==
    LET mods      == ab[1]
        sc        == ab[2]
        key_count == ab[3]
        parsed    == parse_multikey(registry[btn_idx])
    IN  IF key_count > 1
        THEN IF btn_idx \in DOMAIN registry /\ parsed.ok /\ Len(parsed.keys) >= 2
             THEN [mods |-> parsed.mods, keys |-> parsed.keys]
             ELSE [mods |-> mods, keys |-> <<sc>>]
        ELSE [mods |-> mods, keys |-> IF sc # \h00 THEN <<sc>> ELSE <<>>]

\* mutant: the code counted once in the inner checksum
MultimediaSubPacket_CodeOnce(addr_hi, addr_lo, ab) ==
    LET extra  == ab[1]
        code   == ab[2]
        extra2 == ab[3]
        isum   == U8(\h02 + \h82 + code + extra + \h42 + extra2)
        sub    == [ZeroPacket EXCEPT ![0] = \h08, ![1] = \h07, ![2] = \h00,
                                     ![3] = addr_hi, ![4] = addr_lo, ![5] = \h08,
                                     ![6] = \h02, ![7] = \h82, ![8] = code, ![9] = extra,
                                     ![10] = \h42, ![11] = code, ![12] = extra2,
                                     ![13] = U8(\h55 - isum)]
    IN  [sub EXCEPT ![16] = compute_checksum(sub)]

\* protocol.cpp:246-260
MultimediaSubPacket(addr_hi, addr_lo, ab) ==
    LET extra  == ab[1]
        code   == ab[2]
        extra2 == ab[3]
        isum   == U8(\h02 + \h82 + code + extra + \h42 + code + extra2)
        sub    == [ZeroPacket EXCEPT ![0] = \h08, ![1] = \h07, ![2] = \h00,
                                     ![3] = addr_hi, ![4] = addr_lo, ![5] = \h08,
                                     ![6] = \h02, ![7] = \h82, ![8] = code, ![9] = extra,
                                     ![10] = \h42, ![11] = code, ![12] = extra2,
                                     ![13] = U8(\h55 - isum)]
    IN  [sub EXCEPT ![16] = compute_checksum(sub)]

\* mutant: the key subtracted once from 0x91
PlainKeySubPacket_KeyOnce(addr_hi, addr_lo, key) ==
    LET sub == [from_raw(kb_key_template) EXCEPT
                    ![3] = addr_hi, ![4] = addr_lo, ![8] = key, ![11] = key,
                    ![13] = U8(\h91 - key)]
    IN  [sub EXCEPT ![16] = compute_checksum(sub)]

\* protocol.cpp:290-299
PlainKeySubPacket(addr_hi, addr_lo, key) ==
    LET sub == [from_raw(kb_key_template) EXCEPT
                    ![3] = addr_hi, ![4] = addr_lo, ![8] = key, ![11] = key,
                    ![13] = U8(\h91 - 2 * key)]
    IN  [sub EXCEPT ![16] = compute_checksum(sub)]

\* protocol.cpp:329-357: the two sub-packets of an event list.  oob: a store
\* went past the end of p2 (index 6 + remaining is the highest one written).
EventSubPackets(addr_hi, addr_lo, evts) ==
    LET count     == U8(Len(evts) \div 3)
        isum      == (count + SeqSum(evts, Len(evts))) % 65536
        inner     == U8(\h55 - U8(isum))
        p1_evts   == IF Len(evts) < 9 THEN Len(evts) ELSE 9
        remaining == Len(evts) - p1_evts
        p1h == [ZeroPacket EXCEPT ![0] = \h08, ![1] = \h07, ![2] = \h00,
                                  ![3] = addr_hi, ![4] = addr_lo, ![5] = \h0a,
                                  ![6] = count]
        p1e == StoreEvents(p1h, 7, evts, 0, p1_evts)
        p1  == [p1e EXCEPT ![16] = compute_checksum(p1e)]
        p2h == [ZeroPacket EXCEPT ![0] = \h08, ![1] = \h07, ![2] = \h00,
                                  ![3] = addr_hi, ![4] = U8(addr_lo + \h0a),
                                  ![5] = U8(remaining + 1)]
        p2e == Store(StoreEvents(p2h, 6, evts, p1_evts, remaining), 6 + remaining, inner)
        p2  == [p2e EXCEPT ![16] = compute_checksum(p2e)]
    IN  [pkts |-> <<p1, p2>>, oob |-> 6 + remaining >= M913_PACKET_SIZE]

\* protocol.cpp:243-359: the sub-packets of one 0x90 / 0x92 binding
KeyboardSubPackets(btn_idx, ab, registry) ==
    LET addr_hi == kb_key_addr[btn_idx + 1][1]
        addr_lo == kb_key_addr[btn_idx + 1][2]
        bk      == BindingKeys(btn_idx, ab, registry)
    IN  IF ab[0] = \h92
        THEN [pkts |-> <<MultimediaSubPacket(addr_hi, addr_lo, ab)>>, oob |-> FALSE]
        ELSE IF bk.mods = \h00 /\ Len(bk.keys) = 1
        THEN [pkts |-> <<PlainKeySubPacket(addr_hi, addr_lo, bk.keys[1])>>, oob |-> FALSE]
        ELSE EventSubPackets(addr_hi, addr_lo, EventList(bk.mods, bk.keys))

\* mutant: the offset of the even buttons for every button
WriteSlot_EvenOffset(buf, btn_idx, bytes) ==
    LET pkt == btn_idx \div 2
        off == 6
    IN  [buf EXCEPT ![pkt] = [k \in DOMAIN buf[pkt] |->
                                IF k \in off..(off + 3) THEN bytes[k - off] ELSE buf[pkt][k]]]

\* protocol.cpp:361-372: the 4-byte slot of button btn_idx in the base packets
WriteSlot(buf, btn_idx, bytes) ==
    LET pkt == btn_idx \div 2
        off == IF btn_idx % 2 = 0 THEN 6 ELSE 10
    IN  [buf EXCEPT ![pkt] = [k \in DOMAIN buf[pkt] |->
                                IF k \in off..(off + 3) THEN bytes[k - off] ELSE buf[pkt][k]]]

\* protocol.cpp:222-372: the loop body for an index that passed the range check
ApplyInRange(st, btn_idx, ab, registry) ==
    IF ab[0] = \h90 \/ ab[0] = \h92
    THEN LET sub == KeyboardSubPackets(btn_idx, ab, registry)
         IN  [buf    |-> WriteSlot(st.buf, btn_idx, kb_key_action),
              result |-> st.result \o sub.pkts,
              oob    |-> st.oob \/ sub.oob]
    ELSE [st EXCEPT !.buf = WriteSlot(st.buf, btn_idx, ab)]

\* mutant: no range check, the index masked to the 16 buttons instead
ApplyChange_MaskedIndex(st, btn_idx, ab, registry) ==
    ApplyInRange(st, btn_idx % 16, ab, registry)

\* protocol.cpp:219-373: one iteration of the loop over `changes`
ApplyChange(st, btn_idx, ab, registry) ==
    IF btn_idx >= 16 THEN st ELSE ApplyInRange(st, btn_idx, ab, registry)

RECURSIVE ChangesLoop(_, _, _, _)
\* protocol.cpp:219: std::map iterates in ascending key order
ChangesLoop(todo, changes, registry, st) ==
    IF todo = {} THEN st
    ELSE LET b == Min(todo)
         IN  ChangesLoop(todo \ {b}, changes, registry,
                         ApplyChange(st, b, changes[b], registry))

\* mutant: the 8 mapping packets pushed before the sub-packets
build_button_mapping_BaseFirst(changes, registry) ==
    LET start == [buf    |-> [i \in 0..7 |-> from_raw(default_button_mapping[i + 1])],
                  result |-> <<>>,
                  oob    |-> FALSE]
        st    == ChangesLoop(DOMAIN changes, changes, registry, start)
        buf   == [i \in 0..7 |-> [st.buf[i] EXCEPT ![16] = compute_checksum(st.buf[i])]]
    IN  [result |-> [i \in 1..8 |-> buf[i - 1]] \o st.result, oob |-> st.oob]

\* protocol.cpp:203-387: the returned vector, and whether a store went out of
\* bounds on the way
build_button_mapping(changes, registry) ==
    LET start == [buf    |-> [i \in 0..7 |-> from_raw(default_button_mapping[i + 1])],
                  result |-> <<>>,
                  oob    |-> FALSE]
        st    == ChangesLoop(DOMAIN changes, changes, registry, start)
        buf   == [i \in 0..7 |-> [st.buf[i] EXCEPT ![16] = compute_checksum(st.buf[i])]]
    IN  [result |-> st.result \o [i \in 1..8 |-> buf[i - 1]], oob |-> st.oob]

---------------------------------------------------------------------------
(* parse_action (data.cpp:168-231).                                        *)

\* "return false": the caller's `out` is left alone
NotFound == [ok |-> FALSE, out |-> <<>>]

Found(ab) == [ok |-> TRUE, out |-> ab]

DecimalDigits == "0123456789"

IsDigit(c) == \E i \in 1..Len(DecimalDigits) : CharAt(DecimalDigits, i) = c

DigitValue(c) == (CHOOSE i \in 1..Len(DecimalDigits) : CharAt(DecimalDigits, i) = c) - 1

\* std::isspace in the "C" locale
IsSpace(c) == c \in {" ", "\t", "\n", "\r", "\f"}

RECURSIVE SkipSpaces(_)
SkipSpaces(s) == IF s # "" /\ IsSpace(Head(s)) THEN SkipSpaces(Tail(s)) ELSE s

RECURSIVE ReadDigits(_, _)
\* the digits at the front of s, accumulated into acc; -1 once the value
\* leaves the range of int (strtol reports ERANGE, stoi throws out_of_range)
ReadDigits(s, acc) ==
    IF s = "" \/ ~IsDigit(Head(s)) THEN acc
    ELSE IF acc > (2147483647 - DigitValue(Head(s))) \div 10 THEN -1
    ELSE ReadDigits(Tail(s), 10 * acc + DigitValue(Head(s)))

\* std::stoi(s): leading white space, an optional sign, then at least one
\* digit; anything after the digits is ignored.  ok = FALSE: it throws.
\* (the one value it cannot reach here, INT_MIN, is rejected as out of range)
stoi(s) ==
    LET t        == SkipSpaces(s)
        negative == t # "" /\ Head(t) = "-"
        signed   == t # "" /\ Head(t) \in {"-", "+"}
        d        == IF signed THEN Tail(t) ELSE t
        v        == ReadDigits(d, 0)
    IN  IF d = "" \/ ~IsDigit(Head(d)) \/ v < 0 THEN [ok |-> FALSE, val |-> 0]
        ELSE [ok |-> TRUE, val |-> IF negative THEN 0 - v ELSE v]

\* mutant: the repeat count left out of the checksum
FireAction_ChecksumNoTimes(action) ==
    LET parts == split(action, ":")
        speed == stoi(parts[2])
        times == stoi(parts[3])
    IN  IF /\ Len(parts) = 3
           /\ speed.ok /\ times.ok
           /\ speed.val >= 3 /\ speed.val <= 255
           /\ times.val >= 0 /\ times.val <= 3
        THEN Found(AB(\h04, U8(speed.val), U8(times.val),
                      U8(\h55 - (\h04 + speed.val))))
        ELSE NotFound

\* mutant: times < 3 for times <= 3
FireAction_TimesBelow3(action) ==
    LET parts == split(action, ":")
        speed == stoi(parts[2])
        times == stoi(parts[3])
    IN  IF /\ Len(parts) = 3
           /\ speed.ok /\ times.ok
           /\ speed.val >= 3 /\ speed.val <= 255
           /\ times.val >= 0 /\ times.val < 3
        THEN Found(AB(\h04, U8(speed.val), U8(times.val),
                      U8(\h55 - (\h04 + speed.val + times.val))))
        ELSE NotFound

\* data.cpp:172-186: the "fire:speed:times" branch; a throw of stoi is caught
\* and ends in "return false"
FireAction(action) ==
    LET parts == split(action, ":")
        speed == stoi(parts[2])
        times == stoi(parts[3])
    IN  IF /\ Len(parts) = 3
           /\ speed.ok /\ times.ok
           /\ speed.val >= 3 /\ speed.val <= 255
           /\ times.val >= 0 /\ times.val <= 3
        THEN Found(AB(\h04, U8(speed.val), U8(times.val),
                      U8(\h55 - (\h04 + speed.val + times.val))))
        ELSE NotFound

\* mutant: the key count written into byte 3 for a single key too
KeyboardAction_CountAlways(action) ==
    LET parts == split(action, "+")
        p     == ParseParts(parts, 1, \h00, <<>>)
    IN  IF parts = <<>> THEN NotFound
        ELSE IF ~p.ok THEN NotFound
        ELSE IF p.keys = <<>> THEN Found(AB(\h90, p.mods, \h00, \h00))
        ELSE IF Len(p.keys) > 255 THEN NotFound
        ELSE Found(AB(\h90, p.mods, p.keys[1], U8(Len(p.keys))))

\* data.cpp:197-230: the keyboard branch
KeyboardAction(action) ==
    LET parts == split(action, "+")
        p     == ParseParts(parts, 1, \h00, <<>>)
    IN  IF parts = <<>> THEN NotFound
        ELSE IF ~p.ok THEN NotFound
        ELSE IF p.keys = <<>> THEN Found(AB(\h90, p.mods, \h00, \h00))
        ELSE IF Len(p.keys) = 1 THEN Found(AB(\h90, p.mods, p.keys[1], \h00))
        ELSE IF Len(p.keys) > 255 THEN NotFound
        ELSE Found(AB(\h90, p.mods, p.keys[1], U8(Len(p.keys))))

\* std::string::substr(0, n): at most the first n characters
Prefix(s, n) == IF Len(s) < n THEN s ELSE SubSeq(s, 1, n)

\* data.cpp:168
parse_action(action_raw) ==
    LET action == to_lower(action_raw)
    IN  IF Prefix(action, 5) = "fire:" THEN FireAction(action)
        ELSE IF Has(mouse_actions, action) THEN Found(Get(mouse_actions, action))
        ELSE KeyboardAction(action)

---------------------------------------------------------------------------
(* DPI (protocol.cpp:393-448).                                             *)

\* protocol.cpp:148
dpi_template ==
    << <<\h08, \h07, \h00, \h00, \h0c, \h08, \h00, \h00, \h00, \h55, \h02, \h02, \h00, \h51, \h00, \h00, \h88>>,
       <<\h08, \h07, \h00, \h00, \h14, \h08, \h03, \h03, \h00, \h4f, \h04, \h04, \h00, \h4d, \h00, \h00, \h80>>,
       <<\h08, \h07, \h00, \h00, \h1c, \h04, \h05, \h05, \h00, \h4b, \h00, \h00, \h00, \h00, \h00, \h00, \hd1>>,
       <<\h08, \h07, \h00, \h00, \h02, \h02, \h05, \h50, \h00, \h00, \h00, \h00, \h00, \h00, \h00, \h00, \hed>> >>

\* protocol.cpp:157  companion packets sent after every DPI write
unknown2 ==
    << <<\h08, \h07, \h00, \h00, \h2c, \h08, \hff, \h00, \h00, \h56, \h00, \h00, \hff, \h56, \h00, \h00, \h68>>,
       <<\h08, \h07, \h00, \h00, \h34, \h08, \h00, \hff, \h00, \h56, \hff, \hff, \h00, \h57, \h00, \h00, \h60>>,
       <<\h08, \h07, \h00, \h00, \h3c, \h04, \hff, \h55, \h7d, \h84, \h00, \h00, \h00, \h00, \h00, \h00, \hb1>> >>

\* protocol.cpp:80  <<dpi, 3-byte code>>
dpi_table ==
    << <<100, <<\h00, \h00, \h55>>>>, <<200, <<\h02, \h02, \h51>>>>, <<300, <<\h03, \h03, \h4f>>>>,
      <<400, <<\h04, \h04, \h4d>>>>, <<500, <<\h05, \h05, \h4b>>>>, <<600, <<\h06, \h06, \h49>>>>,
      <<700, <<\h07, \h07, \h47>>>>, <<800, <<\h09, \h09, \h43>>>>, <<900, <<\h0a, \h0a, \h41>>>>,
      <<1000, <<\h0b, \h0b, \h3f>>>>, <<1100, <<\h0c, \h0c, \h3d>>>>, <<1200, <<\h0d, \h0d, \h3b>>>>,
      <<1300, <<\h0e, \h0e, \h39>>>>, <<1400, <<\h10, \h10, \h35>>>>, <<1500, <<\h11, \h11, \h33>>>>,
      <<1600, <<\h12, \h12, \h31>>>>, <<1700, <<\h13, \h13, \h2f>>>>, <<1800, <<\h14, \h14, \h2d>>>>,
      <<1900, <<\h16, \h16, \h29>>>>, <<2000, <<\h17, \h17, \h27>>>>, <<2100, <<\h18, \h18, \h25>>>>,
      <<2200, <<\h19, \h19, \h23>>>>, <<2300, <<\h1a, \h1a, \h21>>>>, <<2400, <<\h1b, \h1b, \h1f>>>>,
      <<2500, <<\h1d, \h1d, \h1b>>>>, <<2600, <<\h1e, \h1e, \h19>>>>, <<2700, <<\h1f, \h1f, \h17>>>>,
      <<2800, <<\h20, \h20, \h15>>>>, <<2900, <<\h21, \h21, \h13>>>>, <<3000, <<\h23, \h23, \h0f>>>>,
      <<3200, <<\h26, \h26, \h09>>>>, <<3600, <<\h2a, \h2a, \h01>>>>, <<4000, <<\h2f, \h2f, \hf7>>>>,
      <<4800, <<\h39, \h39, \he3>>>>, <<5000, <<\h3b, \h3b, \hdf>>>>, <<5500, <<\h41, \h41, \hd3>>>>,
      <<6000, <<\h47, \h47, \hc7>>>>, <<6400, <<\h4c, \h4c, \hbd>>>>, <<6600, <<\h4f, \h4f, \hb7>>>>,
      <<7000, <<\h53, \h53, \haf>>>>, <<7200, <<\h56, \h56, \ha9>>>>, <<7300, <<\h57, \h57, \ha7>>>>,
      <<7400, <<\h58, \h58, \ha5>>>>, <<7500, <<\h59, \h59, \ha3>>>>, <<8000, <<\h5f, \h5f, \h97>>>>,
      <<8500, <<\h65, \h65, \h8b>>>>, <<9000, <<\h6b, \h6b, \h7f>>>>, <<9600, <<\h73, \h73, \h6f>>>>,
      <<10000, <<\h77, \h77, \h67>>>>, <<11000, <<\h83, \h83, \h4f>>>>, <<12000, <<\h8f, \h8f, \h37>>>>,
      <<13000, <<\h9b, \h9b, \h1f>>>>, <<14000, <<\ha7, \ha7, \h07>>>>, <<15000, <<\hb3, \hb3, \hef>>>>,
      <<16000, <<\hbd, \hbd, \hdb>>>> >>

\* protocol.cpp:193  the 3-byte code of an exact table entry, <<>> for nullptr
lookup_dpi(dpi) ==
    LET hits == {i \in 1..Len(dpi_table) : dpi_table[i][1] = dpi}
    IN  IF hits = {} THEN <<>> ELSE dpi_table[Min(hits)][2]

\* mutant: the third code byte stored at +2, without the gap
set_level_NoGap(buf, pkt, base_off, val) ==
    LET code == lookup_dpi(val)
    IN  IF code = <<>> THEN buf
        ELSE [buf EXCEPT ![pkt][base_off]     = code[1],
                         ![pkt][base_off + 1] = code[2],
                         ![pkt][base_off + 2] = code[3]]

\* protocol.cpp:400-407
set_level(buf, pkt, base_off, val) ==
    LET code == lookup_dpi(val)
    IN  IF code = <<>> THEN buf
        ELSE [buf EXCEPT ![pkt][base_off]     = code[1],
                         ![pkt][base_off + 1] = code[2],
                         ![pkt][base_off + 3] = code[3]]

\* mutant: the four tests in the opposite order, the highest disabled level last
EnableBytes_HighestLast(enabled) ==
    LET num_enabled == Cardinality({i \in 0..4 : enabled[i]})
        e1 == IF ~enabled[1] THEN <<\h01, \h54>> ELSE <<\h05, \h50>>
        e2 == IF ~enabled[2] THEN <<\h02, \h53>> ELSE e1
        e3 == IF ~enabled[3] THEN <<\h03, \h52>> ELSE e2
        e4 == IF ~enabled[4] THEN <<\h04, \h51>> ELSE e3
    IN  IF num_enabled = 0 THEN <<>> ELSE e4

\* mutant: no test of num_enabled
EnableBytes_NoCount(enabled) ==
    LET e4 == IF ~enabled[4] THEN <<\h04, \h51>> ELSE <<\h05, \h50>>
        e3 == IF ~enabled[3] THEN <<\h03, \h52>> ELSE e4
        e2 == IF ~enabled[2] THEN <<\h02, \h53>> ELSE e3
        e1 == IF ~enabled[1] THEN <<\h01, \h54>> ELSE e2
    IN  e1

\* protocol.cpp:421-433: bytes 6 and 7 of buf[3]
EnableBytes(enabled) ==
    LET num_enabled == Cardinality({i \in 0..4 : enabled[i]})
        e4 == IF ~enabled[4] THEN <<\h04, \h51>> ELSE <<\h05, \h50>>
        e3 == IF ~enabled[3] THEN <<\h03, \h52>> ELSE e4
        e2 == IF ~enabled[2] THEN <<\h02, \h53>> ELSE e3
        e1 == IF ~enabled[1] THEN <<\h01, \h54>> ELSE e2
    IN  IF num_enabled = 0 THEN <<>> ELSE e1

\* protocol.cpp:409-413: a level whose value is 0 keeps the template bytes
SetLevelIf(buf, pkt, base_off, val) ==
    IF val # 0 THEN set_level(buf, pkt, base_off, val) ELSE buf

\* protocol.cpp:421-433: the enable pair stored into buf[3], unless no level
\* is enabled
SetEnabled(buf, e) ==
    IF e = <<>> THEN buf ELSE [buf EXCEPT ![3][6] = e[1], ![3][7] = e[2]]

\* protocol.cpp:436-437: the checksum of each of the four DPI packets
DpiChecksums(buf) ==
    [i \in 0..3 |-> [buf[i] EXCEPT ![16] = compute_checksum(buf[i])]]

\* protocol.cpp:393-437: the four DPI packets
DpiBuf(dpi) ==
    LET b0 == [i \in 0..3 |-> from_raw(dpi_template[i + 1])]
        b1 == SetLevelIf(b0, 0, 6,  dpi.values[0])
        b2 == SetLevelIf(b1, 0, 10, dpi.values[1])
        b3 == SetLevelIf(b2, 1, 6,  dpi.values[2])
        b4 == SetLevelIf(b3, 1, 10, dpi.values[3])
        b5 == SetLevelIf(b4, 2, 6,  dpi.values[4])
    IN  DpiChecksums(SetEnabled(b5, EnableBytes(dpi.enabled)))

\* mutant: the companion packets pushed before the DPI packets
build_dpi_packets_CompanionsFirst(dpi) ==
    [i \in 1..3 |-> from_raw(unknown2[i])] \o [i \in 1..4 |-> DpiBuf(dpi)[i - 1]]

\* protocol.cpp:393
build_dpi_packets(dpi) ==
    [i \in 1..4 |-> DpiBuf(dpi)[i - 1]] \o [i \in 1..3 |-> from_raw(unknown2[i])]

---------------------------------------------------------------------------
(* LED (protocol.cpp:454-516).                                             *)

\* protocol.cpp:167
led_off ==
    << <<\h08, \h07, \h00, \h00, \h58, \h02, \h00, \h55, \h00, \h00, \h00, \h00, \h00, \h00, \h00, \h00, \h97>> >>

\* protocol.cpp:170
led_breathing ==
    << <<\h08, \h07, \h00, \h00, \h54, \h08, \hff, \h00, \h00, \h57, \h01, \h54, \hff, \h56, \h00, \h00, \heb>>,
       <<\h08, \h07, \h00, \h00, \h5c, \h02, \h03, \h52, \h00, \h00, \h00, \h00, \h00, \h00, \h00, \h00, \h93>> >>

\* protocol.cpp:174
led_rainbow ==
    << <<\h08, \h07, \h00, \h00, \h54, \h08, \hff, \h00, \hff, \h57, \h03, \h52, \h80, \hd5, \h00, \h00, \heb>>,
       <<\h08, \h07, \h00, \h00, \h5c, \h02, \h03, \h52, \h00, \h00, \h00, \h00, \h00, \h00, \h00, \h00, \h93>> >>

\* protocol.cpp:178
led_static ==
    << <<\h08, \h07, \h00, \h00, \h54, \h08, \hff, \h00, \h00, \h57, \h01, \h54, \hff, \h56, \h00, \h00, \heb>> >>

\* mutant: the blue channel left out of the colour checksum
ColorPacket_NoBlue(template, mode_byte, color, brightness) ==
    LET r == (color \div 65536) % 256
        g == (color \div 256) % 256
        b == color % 256
        p == [from_raw(template) EXCEPT
                 ![6] = r, ![7] = g, ![8] = b, ![9] = U8(\h55 - r - g),
                 ![10] = mode_byte, ![11] = U8(\h55 - mode_byte),
                 ![12] = brightness, ![13] = U8(\h55 - brightness)]
    IN  [p EXCEPT ![16] = compute_checksum(p)]

\* protocol.cpp:467-481 and 497-511: the colour packet of Respiration (mode
\* byte 0x02) and of Steady (mode byte 0x01)
ColorPacket(template, mode_byte, color, brightness) ==
    LET r == (color \div 65536) % 256
        g == (color \div 256) % 256
        b == color % 256
        p == [from_raw(template) EXCEPT
                 ![6] = r, ![7] = g, ![8] = b, ![9] = U8(\h55 - r - g - b),
                 ![10] = mode_byte, ![11] = U8(\h55 - mode_byte),
                 ![12] = brightness, ![13] = U8(\h55 - brightness)]
    IN  [p EXCEPT ![16] = compute_checksum(p)]

\* protocol.cpp:485-489
SpeedPacket(speed) ==
    LET p == [from_raw(led_breathing[2]) EXCEPT ![6] = speed, ![7] = U8(\h55 - speed)]
    IN  [p EXCEPT ![16] = compute_checksum(p)]

\* mutant: the speed written into the second Rainbow packet as well
build_led_packets_RainbowSpeed(mode, color, brightness, speed) ==
    IF mode = "Off" THEN <<from_raw(led_off[1])>>
    ELSE IF mode = "Respiration"
         THEN <<ColorPacket(led_breathing[1], \h02, color, brightness), SpeedPacket(speed)>>
    ELSE IF mode = "Rainbow" THEN <<from_raw(led_rainbow[1]), SpeedPacket(speed)>>
    ELSE <<ColorPacket(led_static[1], \h01, color, brightness)>>

\* protocol.cpp:454
build_led_packets(mode, color, brightness, speed) ==
    IF mode = "Off" THEN <<from_raw(led_off[1])>>
    ELSE IF mode = "Respiration"
         THEN <<ColorPacket(led_breathing[1], \h02, color, brightness), SpeedPacket(speed)>>
    ELSE IF mode = "Rainbow" THEN <<from_raw(led_rainbow[1]), from_raw(led_rainbow[2])>>
    ELSE <<ColorPacket(led_static[1], \h01, color, brightness)>>

---------------------------------------------------------------------------
(* Polling rate (protocol.cpp:522-541).                                    *)

\* mutant: strict comparisons
PollingCode_Strict(hz) ==
    IF hz > 1000 THEN \h01
    ELSE IF hz > 500 THEN \h02
    ELSE IF hz > 250 THEN \h04
    ELSE \h08

\* protocol.cpp:529-532
PollingCode(hz) ==
    IF hz >= 1000 THEN \h01
    ELSE IF hz >= 500 THEN \h02
    ELSE IF hz >= 250 THEN \h04
    ELSE \h08

\* mutant: the complement taken from 0xFF
build_polling_rate_packet_Complement(hz) ==
    LET code == PollingCode(hz)
        p    == [ZeroPacket EXCEPT ![0] = \h08, ![1] = \h07, ![4] = \h00, ![5] = \h02,
                                   ![6] = code, ![7] = U8(\hFF - code)]
    IN  [p EXCEPT ![16] = compute_checksum(p)]

\* protocol.cpp:522
build_polling_rate_packet(hz) ==
    LET code == PollingCode(hz)
        p    == [ZeroPacket EXCEPT ![0] = \h08, ![1] = \h07, ![4] = \h00, ![5] = \h02,
                                   ![6] = code, ![7] = U8(\h55 - code)]
    IN  [p EXCEPT ![16] = compute_checksum(p)]

---------------------------------------------------------------------------
(* The calls a client makes and the inputs they are checked on.  The       *)
(* client holds at most one returned value: it registers multi-key strings *)
(* and calls a builder while it holds none (main.cpp:139-159), may call    *)
(* build_button_mapping again with the same map, and then drops the value. *)

MaxChanges == 2
MaxRegistered == 1

\* button indices offered as keys of `changes` (16 is out of range)
ButtonInputs == {0, 1, 15, 16}

\* action strings whose parse_action bytes are offered as values of `changes`
BindingInputs ==
    {"left", "media_play", "a", "ctrl", "ctrl+c", "a+b+c", "ctrl+shift+alt+a"}

ActionInputs == {parse_action(s).out : s \in BindingInputs}

\* buttons and strings offered to register_multikey_action
RegistryButtonInputs == {0, 1}
RegistryStringInputs == {"a+b+c", "ctrl+a+b+c", "a+zz"}

\* action strings offered to parse_action
MaxTokens == 3

\* tokens joined with '+' into action strings ("" gives a doubled, leading or
\* trailing '+')
TokenInputs == {"", "ctrl", "shift_r", "Alt", "a", "c", "left", "zz"}

RECURSIVE Join(_, _)
\* the tokens of a sequence with sep between neighbours
Join(toks, sep) ==
    IF toks = <<>> THEN ""
    ELSE IF Len(toks) = 1 THEN toks[1]
    ELSE toks[1] \o sep \o Join(Tail(toks), sep)

TokenListInputs == UNION {[1..n -> TokenInputs] : n \in 1..MaxTokens}

ComboInputs == {Join(toks, "+") : toks \in TokenListInputs}

FireSpeedInputs == {-1, 0, 2, 3, 4, 50, 254, 255, 256, 1000}
FireTimesInputs == {-1, 0, 1, 2, 3, 4}

FireString(speed, times) == "fire:" \o ToString(speed) \o ":" \o ToString(times)

FireInputs == {FireString(speed, times) : speed \in FireSpeedInputs, times \in FireTimesInputs}

MalformedFireInputs ==
    {"fire:", "fire:50", "fire:50:2:1", "fire:x:2", "fire:50:y", "Fire:50:2",
     "fire:50:2x", "fire::50:2", "fire:99999999999:1", "fire: 50:+2"}

LiteralInputs == {kv[1] : kv \in mouse_actions} \cup {"LEFT", "Media_Play"}

ActionStringInputs == ComboInputs \cup FireInputs \cup MalformedFireInputs \cup LiteralInputs

\* std::map<uint8_t, T> with at most n keys out of K and values out of V
Maps(K, V, n) ==
    UNION {[D -> V] : D \in {D \in SUBSET K : Cardinality(D) <= n}}

\* the table names and fire strings parse_action accepts
SingleBindingInputs == {s \in LiteralInputs \cup FireInputs : parse_action(s).ok}

\* maps over ButtonInputs, and every accepted table name and fire string
\* bound to every one of the 16 buttons on its own
ChangesInputs ==
    Maps(ButtonInputs, ActionInputs, MaxChanges)
    \cup {[b \in {button} |-> parse_action(s).out] : button \in 0..15, s \in SingleBindingInputs}

\* 0: level not set; 3200, 16000: table entries; 3300: no table entry
DpiValueInputs == {0, 3200, 3300, 16000}

AllEnabled == [i \in 0..4 |-> TRUE]

\* every value vector with all levels enabled, and every enabled vector with
\* the values 0 and 3200
DpiInputs ==
    {[values |-> v, enabled |-> AllEnabled] : v \in [0..4 -> DpiValueInputs]}
    \cup {[values |-> v, enabled |-> e] : v \in [0..4 -> {0, 3200}], e \in [0..4 -> BOOLEAN]}

LedModeInputs == {"Off", "Steady", "Respiration", "Rainbow"}
ColorInputs == {\h000000, \h00ff00, \h123456, \hffffff}
BrightnessInputs == {\h00, \h80, \hff}
SpeedInputs == {1, 3, 5}
HzInputs == {0, 124, 125, 249, 250, 499, 500, 999, 1000, 65535}

NoCall == [fn |-> "none", args |-> <<>>]

\* no interrupt transfer was made yet
NoTransfer == [r |-> 0, transferred |-> 0]

\* no diagnostic block requested
NoListen == [raw |-> "", scan |-> FALSE, listen |-> FALSE, listen_ep |-> -1]

\* no receive attempt started by either listen loop
NoPolls == [raw |-> 0, listen |-> 0]

\* no libusb call made yet
NoCalls ==
    [open |-> 0, close |-> 0,
     detach |-> [i \in 0..1 |-> 0], claim |-> [i \in 0..1 |-> 0],
     release |-> [i \in 0..1 |-> 0], attach |-> [i \in 0..1 |-> 0]]

Init ==
    /\ g_multikey_actions = <<>>
    /\ call = NoCall
    /\ ret = <<>>
    /\ aborted = FALSE
    /\ pc = "start"
    /\ queue = <<>>
    /\ did_config = FALSE
    /\ pkts = <<>>
    /\ pkt_i = 0
    /\ attempt = 0
    /\ got = 0
    /\ tx = 0
    /\ rx = NoTransfer
    /\ wire = <<>>
    /\ seqs = <<>>
    /\ fault = FALSE
    /\ exit_code = 0
    /\ handle_open = TRUE
    /\ usb_pc = "open"
    /\ handle = FALSE
    /\ detached = [i \in 0..1 |-> FALSE]
    /\ claimed = [i \in 0..1 |-> FALSE]
    /\ kernel_driver = [i \in 0..1 |-> FALSE]
    /\ calls = NoCalls
    /\ exit_path = ""
    /\ g_stop = FALSE
    /\ handler = FALSE
    /\ lpc = "start"
    /\ opts = NoListen
    /\ ep_i = 0
    /\ polls = NoPolls
    /\ lfault = FALSE
    /\ apc = "start"
    /\ n_pkts = 0
    /\ cmd_i = 0
    /\ att = 0
    /\ agot = 0
    /\ in_device = {}
    /\ ep_in = <<>>
    /\ consumed = <<>>

\* protocol.cpp:12
RegisterMultikeyAction ==
    /\ ~aborted
    /\ call = NoCall
    /\ \E button_idx \in RegistryButtonInputs, action_str \in RegistryStringInputs :
         /\ Cardinality(DOMAIN g_multikey_actions \cup {button_idx}) <= MaxRegistered
         /\ g_multikey_actions' =
                [b \in DOMAIN g_multikey_actions \cup {button_idx} |->
                    IF b = button_idx THEN action_str ELSE g_multikey_actions[b]]
    /\ UNCHANGED <<call, ret, aborted>>
    /\ UNCHANGED <<sessVars, extVars>>

\* protocol.cpp:16
ClearMultikeyActions ==
    /\ ~aborted
    /\ call = NoCall
    /\ g_multikey_actions' = <<>>
    /\ UNCHANGED <<call, ret, aborted>>
    /\ UNCHANGED <<sessVars, extVars>>

\* protocol.cpp:203 called with `changes`; call.registry keeps the registry the
\* call found.  A call in which a store went past
\* the end of p2 has undefined behaviour: either the stray stores hit nothing
\* the function reads afterwards and it returns the vector it built, or the
\* process is terminated before it returns (the registry is never cleared).
CallBuildButtonMapping(changes) ==
    LET r == build_button_mapping(changes, g_multikey_actions)
    IN  /\ call' = [fn |-> "build_button_mapping", args |-> changes,
                     registry |-> g_multikey_actions]
        /\ \/ /\ ret' = r.result
              /\ g_multikey_actions' = <<>>
              /\ aborted' = FALSE
           \/ /\ r.oob
              /\ ret' = <<>>
              /\ aborted' = TRUE
              /\ UNCHANGED g_multikey_actions

BuildButtonMapping ==
    /\ ~aborted
    /\ call = NoCall
    /\ \E changes \in ChangesInputs : CallBuildButtonMapping(changes)
    /\ UNCHANGED <<sessVars, extVars>>

\* a second call with the map of the call before
BuildButtonMappingAgain ==
    /\ ~aborted
    /\ call.fn = "build_button_mapping"
    /\ CallBuildButtonMapping(call.args)
    /\ UNCHANGED <<sessVars, extVars>>

\* protocol.cpp:393
BuildDpiPackets ==
    /\ ~aborted
    /\ call = NoCall
    /\ \E dpi \in DpiInputs :
         /\ call' = [fn |-> "build_dpi_packets", args |-> dpi]
         /\ ret' = build_dpi_packets(dpi)
    /\ UNCHANGED <<g_multikey_actions, aborted>>
    /\ UNCHANGED <<sessVars, extVars>>

\* protocol.cpp:454
BuildLedPackets ==
    /\ ~aborted
    /\ call = NoCall
    /\ \E mode \in LedModeInputs, color \in ColorInputs,
          brightness \in BrightnessInputs, speed \in SpeedInputs :
         /\ call' = [fn |-> "build_led_packets",
                     args |-> [mode |-> mode, color |-> color,
                               brightness |-> brightness, speed |-> speed]]
         /\ ret' = build_led_packets(mode, color, brightness, speed)
    /\ UNCHANGED <<g_multikey_actions, aborted>>
    /\ UNCHANGED <<sessVars, extVars>>

\* protocol.cpp:522 (main.cpp:184 wraps the packet in a one-element vector)
BuildPollingRatePacket ==
    /\ ~aborted
    /\ call = NoCall
    /\ \E hz \in HzInputs :
         /\ call' = [fn |-> "build_polling_rate_packet", args |-> hz]
         /\ ret' = <<build_polling_rate_packet(hz)>>
    /\ UNCHANGED <<g_multikey_actions, aborted>>
    /\ UNCHANGED <<sessVars, extVars>>

\* the returned vector goes out of scope
DropResult ==
    /\ ~aborted
    /\ call # NoCall
    /\ call' = NoCall
    /\ ret' = <<>>
    /\ UNCHANGED <<g_multikey_actions, aborted>>
    /\ UNCHANGED <<sessVars, extVars>>

Next ==
    \/ RegisterMultikeyAction
    \/ ClearMultikeyActions
    \/ BuildButtonMapping
    \/ BuildButtonMappingAgain
    \/ BuildDpiPackets
    \/ BuildLedPackets
    \/ BuildPollingRatePacket
    \/ DropResult

Spec == Init /\ [][Next]_vars

---------------------------------------------------------------------------
(* parse_action on its own: one call on one action string.                 *)

\* data.cpp:168 called on `action`
ParseAction ==
    /\ call = NoCall
    /\ \E action \in ActionStringInputs :
         /\ call' = [fn |-> "parse_action", args |-> action]
         /\ ret' = parse_action(action)
    /\ UNCHANGED <<g_multikey_actions, aborted>>
    /\ UNCHANGED <<sessVars, extVars>>

NextParse == ParseAction \/ DropResult

SpecParse == Init /\ [][NextParse]_vars


---------------------------------------------------------------------------
(* Properties of the packet builders, stated over the value a call        *)
(* returned (`ret`) and the arguments it was made with (`call`).          *)

BuilderNames == {"build_button_mapping", "build_dpi_packets",
                 "build_led_packets", "build_polling_rate_packet"}

\* a call of build_button_mapping that returned to its caller
ButtonCallReturned == call.fn = "build_button_mapping" /\ ~aborted

RECURSIVE SumOver(_, _)
\* the plain sum of the bytes of packet p at the indices in S
SumOver(p, S) ==
    IF S = {} THEN 0
    ELSE LET i == CHOOSE i \in S : TRUE IN p[i] + SumOver(p, S \ {i})

\* C1: every packet returned by build_button_mapping, build_dpi_packets,
\* build_led_packets or build_polling_rate_packet has 17 bytes, and its last
\* byte is (0x55 - sum of bytes 0..15) mod 256, so that all 17 bytes sum to
\* 0x55 modulo 256.
C1_ChecksumOfEveryPacket ==
    (call.fn \in BuilderNames /\ ~aborted) =>
        \A i \in 1..Len(ret) :
            /\ DOMAIN ret[i] = 0..16
            /\ ret[i][16] = (\h55 - SumOver(ret[i], 0..15)) % 256
            /\ SumOver(ret[i], 0..16) % 256 = \h55

\* a returned button mapping that holds the two sub-packets of an event list
C1_Witness ==
    /\ ButtonCallReturned
    /\ Len(ret) = 10
    /\ ret[1][5] = \h0a
    /\ ret[1][16] # 0

---------------------------------------------------------------------------
(* The keyboard bindings of a button-mapping call.                        *)

\* the buttons of the call that pass the range check and carry a 0x90 binding
\* that is not a lone key without modifiers
EventButtons ==
    {b \in DOMAIN call.args :
        /\ b < 16
        /\ call.args[b][0] = \h90
        /\ LET bk == BindingKeys(b, call.args[b], call.registry)
           IN  ~(bk.mods = \h00 /\ Len(bk.keys) = 1)}

\* the bit numbers set in a modifier byte
SetBits(mods) == {j \in 0..7 : (mods \div (2 ^ j)) % 2 = 1}

\* the j-th smallest element of a set of numbers
Nth(S, j) == CHOOSE x \in S : Cardinality({y \in S : y < x}) = j - 1

\* the i-th event of the list the specification describes: modifier-downs
\* from bit 0 to bit 7, key-downs in the given order, modifier-ups from bit 0
\* to bit 7, key-ups in reverse order
ExpectedEvent(mods, keys, i) ==
    LET m == Cardinality(SetBits(mods))
        k == Len(keys)
    IN  IF i <= m THEN <<\h80, 2 ^ Nth(SetBits(mods), i), \h00>>
        ELSE IF i <= m + k THEN <<\h81, keys[i - m], \h00>>
        ELSE IF i <= 2 * m + k THEN <<\h40, 2 ^ Nth(SetBits(mods), i - m - k), \h00>>
        ELSE <<\h41, keys[k + 1 - (i - 2 * m - k)], \h00>>

ExpectedEventBytes(mods, keys) ==
    LET n == 2 * (Cardinality(SetBits(mods)) + Len(keys))
    IN  [j \in 1..(3 * n) |-> ExpectedEvent(mods, keys, ((j - 1) \div 3) + 1)[((j - 1) % 3) + 1]]

\* ret[i], ret[i + 1] are the two sub-packets written for button b
IsEventPair(b, i) ==
    /\ i + 1 <= Len(ret) - 8
    /\ ret[i][3] = kb_key_addr[b + 1][1] /\ ret[i][4] = kb_key_addr[b + 1][2]
    /\ ret[i][5] = \h0a
    /\ ret[i + 1][3] = kb_key_addr[b + 1][1]
    /\ ret[i + 1][4] = (kb_key_addr[b + 1][2] + \h0a) % 256

\* C2: for a 0x90 binding on the event path the event list is one
\* modifier-down per set modifier bit from bit 0 to bit 7, one key-down per key
\* in the given order, one modifier-up per set bit from bit 0 to bit 7, and one
\* key-up per key in reverse order; the first sub-packet carries the event
\* count and the first 9 event bytes, the second the bytes that follow.
C2_EventOrder ==
    ButtonCallReturned =>
        \A b \in EventButtons :
            LET bk == BindingKeys(b, call.args[b], call.registry)
                E  == ExpectedEventBytes(bk.mods, bk.keys)
            IN  \E i \in 1..Len(ret) :
                    /\ IsEventPair(b, i)
                    /\ ret[i][6] = Len(E) \div 3
                    /\ \A j \in 1..Len(E) :
                          /\ j <= 9 => ret[i][6 + j] = E[j]
                          /\ (j > 9 /\ j - 4 <= 15) => ret[i + 1][j - 4] = E[j]

\* the registered combination a+b+c expanded: downs a, b, c and ups c, b, a
C2_Witness ==
    /\ ButtonCallReturned
    /\ \E b \in EventButtons :
          /\ b \in DOMAIN call.registry
          /\ call.registry[b] = "a+b+c"
          /\ call.args[b][3] = 3
          /\ \E i \in 1..Len(ret) :
                /\ IsEventPair(b, i)
                /\ <<ret[i][7], ret[i][8], ret[i][10], ret[i][11], ret[i][13], ret[i][14]>>
                       = <<\h81, \h04, \h81, \h05, \h81, \h06>>
                /\ <<ret[i + 1][6], ret[i + 1][7], ret[i + 1][9], ret[i + 1][10],
                     ret[i + 1][12], ret[i + 1][13]>>
                       = <<\h41, \h06, \h41, \h05, \h41, \h04>>

\* C3: for every binding on the event path the call returns, and its two
\* sub-packets carry the whole payload: the first the count and the first 9
\* event bytes, the second a length byte of (remaining + 1), the remaining
\* event bytes from index 6 on and the inner checksum right after them, all of
\* it below index 16, which holds the packet checksum.
C3_PayloadFitsTwoPackets ==
    call.fn = "build_button_mapping" =>
        /\ ~aborted
        /\ \A b \in EventButtons :
              LET bk        == BindingKeys(b, call.args[b], call.registry)
                  E         == ExpectedEventBytes(bk.mods, bk.keys)
                  first     == IF Len(E) < 9 THEN Len(E) ELSE 9
                  remaining == Len(E) - first
                  inner     == (\h55 - ((Len(E) \div 3) + SumOver(E, 1..Len(E)))) % 256
              IN  /\ 6 + remaining < 16
                  /\ \E i \in 1..Len(ret) :
                        /\ IsEventPair(b, i)
                        /\ ret[i][6] = Len(E) \div 3
                        /\ \A j \in 1..first : ret[i][6 + j] = E[j]
                        /\ ret[i + 1][5] = remaining + 1
                        /\ \A j \in 1..remaining : ret[i + 1][5 + j] = E[first + j]
                        /\ ret[i + 1][6 + remaining] = inner

\* C4: two calls of build_button_mapping with the same `changes` return the
\* same packets (stated for calls that return and stay within their buffers).
C4_OutputDependsOnChangesOnly ==
    [][(/\ call.fn = "build_button_mapping"
        /\ call'.fn = "build_button_mapping"
        /\ call'.args = call.args
        /\ ~aborted /\ ~aborted'
        /\ ~build_button_mapping(call.args, call.registry).oob
        /\ ~build_button_mapping(call'.args, call'.registry).oob)
           => ret' = ret]_vars

\* the number of sub-packets the specification gives a binding
SubPacketCount(b) ==
    LET ab == call.args[b]
        bk == BindingKeys(b, ab, call.registry)
    IN  IF ab[0] = \h92 THEN 1
        ELSE IF ab[0] = \h90
        THEN IF bk.mods = \h00 /\ Len(bk.keys) = 1 THEN 1 ELSE 2
        ELSE 0

RECURSIVE SumCounts(_)
SumCounts(S) ==
    IF S = {} THEN 0
    ELSE LET b == CHOOSE b \in S : TRUE IN SubPacketCount(b) + SumCounts(S \ {b})

InRangeButtons == {b \in DOMAIN call.args : b < 16}

\* C5: the result ends with the 8 mapping packets in the order of the
\* template, every sub-packet precedes them, each in-range keyboard button
\* contributes 1 sub-packet (multimedia, or a lone key without modifiers) or
\* 2 (event list), and the sub-packets follow the ascending order of the
\* button indices.
C5_ResultLayout ==
    ButtonCallReturned =>
        LET nsub == Len(ret) - 8
        IN  /\ nsub = SumCounts(InRangeButtons)
            /\ \A i \in 1..8 :
                  /\ ret[nsub + i][3] = \h00
                  /\ ret[nsub + i][4] = default_button_mapping[i][5]
                  /\ ret[nsub + i][5] = \h08
            /\ \A b \in InRangeButtons :
                  LET before == SumCounts({c \in InRangeButtons : c < b})
                  IN  \A k \in 1..SubPacketCount(b) :
                          /\ before + k <= nsub
                          /\ ret[before + k][3] = kb_key_addr[b + 1][1]
                          /\ ret[before + k][4] =
                                 (kb_key_addr[b + 1][2] + (k - 1) * \h0a) % 256

\* one sub-packet of button 0 or 1, then two of a higher one, then the 8
C5_Witness ==
    /\ ButtonCallReturned
    /\ Len(ret) = 11
    /\ Cardinality(InRangeButtons) = 2
    /\ \E b \in InRangeButtons : SubPacketCount(b) = 1 /\ b = 0
    /\ \E b \in InRangeButtons : SubPacketCount(b) = 2 /\ b > 0

\* the slot of button b in the returned mapping packets
SlotPacket(b) == ret[Len(ret) - 8 + (b \div 2) + 1]
SlotOffset(b) == IF b % 2 = 0 THEN 6 ELSE 10
SlotBytes(b)  == [k \in 0..3 |-> SlotPacket(b)[SlotOffset(b) + k]]

\* C6: the slot of button b is at offset 6 (even b) or 10 (odd b) of mapping
\* packet b / 2; it holds the four action bytes of a direct binding and the
\* marker 05 00 00 50 of a keyboard binding (0x90 or 0x92); every other byte
\* of the 8 packets except the checksum is the byte of the default template.
C6_SlotContents ==
    ButtonCallReturned =>
        /\ \A b \in InRangeButtons :
              SlotBytes(b) = IF call.args[b][0] \in {\h90, \h92}
                             THEN AB(\h05, \h00, \h00, \h50)
                             ELSE call.args[b]
        /\ \A i \in 1..8 : \A j \in 0..15 :
              (\A b \in InRangeButtons :
                    ~(b \div 2 = i - 1 /\ j \in SlotOffset(b)..(SlotOffset(b) + 3)))
              => ret[Len(ret) - 8 + i][j] = default_button_mapping[i][j + 1]
        /\ \A i \in 1..8 :
              (\A b \in InRangeButtons : b \div 2 # i - 1)
              => ret[Len(ret) - 8 + i][16] = default_button_mapping[i][17]

\* a direct binding on an odd button next to a keyboard binding
C6_Witness ==
    /\ ButtonCallReturned
    /\ \E b \in InRangeButtons :
          /\ b % 2 = 1
          /\ call.args[b][0] \notin {\h90, \h92}
          /\ SlotBytes(b) # [k \in 0..3 |-> default_button_mapping[(b \div 2) + 1][11 + k]]
    /\ \E b \in InRangeButtons : call.args[b][0] = \h92

\* C7: with an empty `changes` the result is exactly the 8 packets of the
\* default template, checksums included.
C7_EmptyChangesGiveDefault ==
    (call.fn = "build_button_mapping" /\ DOMAIN call.args = {}) =>
        /\ ~aborted
        /\ Len(ret) = 8
        /\ \A i \in 1..8 : \A j \in 0..16 : ret[i][j] = default_button_mapping[i][j + 1]

C7_Witness ==
    /\ call.fn = "build_button_mapping"
    /\ DOMAIN call.args = {}
    /\ Len(ret) = 8
    /\ ret[8][4] = \h98

\* `changes` without its entries of index 16 and above
InRangeChanges == [b \in InRangeButtons |-> call.args[b]]

\* C8: an entry of `changes` whose button index is 16 or more is ignored: the
\* result is the result of the same call without these entries.
C8_OutOfRangeIgnored ==
    ButtonCallReturned =>
        ret = build_button_mapping(InRangeChanges, call.registry).result

\* a keyboard binding on index 16 next to an in-range binding
C8_Witness ==
    /\ ButtonCallReturned
    /\ 16 \in DOMAIN call.args
    /\ call.args[16][0] = \h90
    /\ InRangeButtons # {}
    /\ Len(ret) > 8

---------------------------------------------------------------------------
(* Properties of parse_action, under SpecParse.                           *)

ParseCall == call.fn = "parse_action"

\* C9: "fire:<speed>:<times>" is accepted exactly when 3 <= speed <= 255 and
\* 0 <= times <= 3, and then gives {0x04, speed, times, 0x55 - (0x04 + speed +
\* times)}; fire:50:2 gives 04 32 02 1D.
C9_FireAction ==
    ParseCall =>
        /\ \A speed \in FireSpeedInputs : \A times \in FireTimesInputs :
              call.args = FireString(speed, times) =>
                  IF speed >= 3 /\ speed <= 255 /\ times >= 0 /\ times <= 3
                  THEN /\ ret.ok
                       /\ ret.out = [k \in 0..3 |->
                              <<\h04, speed, times, (\h55 - (\h04 + speed + times)) % 256>>[k + 1]]
                  ELSE ~ret.ok
        /\ call.args = "fire:50:2" => ret.out = AB(\h04, \h32, \h02, \h1D)

C9_Witness ==
    /\ ParseCall
    /\ call.args = "fire:255:3"
    /\ ret.ok
    /\ ret.out[3] = \h4F

RECURSIVE Pieces(_, _)
\* the pieces of s between the '+' signs, the empty ones included; acc is the
\* piece being read
Pieces(s, acc) ==
    IF s = "" THEN <<acc>>
    ELSE IF Head(s) = "+" THEN <<acc>> \o Pieces(Tail(s), "")
    ELSE Pieces(Tail(s), acc \o Head(s))

ModifierNames == {m[1] : m \in modifier_bits}
KeyNames      == {k[1] : k \in key_codes}

\* a name parse_action takes to its keyboard branch
IsKeyboardInput(s) ==
    /\ ~Has(mouse_actions, to_lower(s))
    /\ ~(Len(s) >= 5 /\ SubSeq(to_lower(s), 1, 5) = "fire:")

\* the action bytes the specification gives a list of recognised tokens
ComboBytes(tokens) ==
    LET bits == {Get(modifier_bits, tokens[i]) :
                     i \in {i \in 1..Len(tokens) : tokens[i] \in ModifierNames}}
        keys == SelectSeq(tokens, LAMBDA t : t \notin ModifierNames)
    IN  [k \in 0..3 |->
            <<\h90,
              SumOver([x \in bits |-> x], bits),
              IF keys = <<>> THEN \h00 ELSE Get(key_codes, keys[1]),
              IF Len(keys) >= 2 THEN Len(keys) ELSE \h00>>[k + 1]]

\* C10 as stated: the tokens are the pieces between the '+' signs; a token
\* that is neither a modifier nor a key name makes parse_action return false.
C10_AsStated ==
    (ParseCall /\ IsKeyboardInput(call.args)) =>
        LET tokens == Pieces(to_lower(call.args), "")
        IN  IF \E i \in 1..Len(tokens) : tokens[i] \notin ModifierNames \cup KeyNames
            THEN ~ret.ok
            ELSE ret.ok /\ ret.out = ComboBytes(tokens)

\* C10: the tokens are the non-empty pieces between the '+' signs, in lower
\* case.  parse_action returns false when there is no token or when a token is
\* neither a modifier nor a key name; otherwise it gives {0x90, the OR of the
\* modifier bits, the first key or 0x00, the key count when it is 2 or more
\* and 0x00 otherwise}; ctrl+c gives 90 01 06 00.
C10_KeyboardCombo ==
    (ParseCall /\ IsKeyboardInput(call.args)) =>
        LET tokens == SelectSeq(Pieces(to_lower(call.args), ""), LAMBDA t : t # "")
        IN  /\ IF \/ tokens = <<>>
                  \/ \E i \in 1..Len(tokens) : tokens[i] \notin ModifierNames \cup KeyNames
               THEN ~ret.ok
               ELSE ret.ok /\ ret.out = ComboBytes(tokens)
            /\ call.args = "ctrl+c" => ret.out = AB(\h90, \h01, \h06, \h00)

C10_Witness ==
    /\ ParseCall
    /\ call.args = "ctrl+c"
    /\ ret = Found(AB(\h90, \h01, \h06, \h00))


---------------------------------------------------------------------------
(* Properties of build_dpi_packets.                                       *)

DpiCall == call.fn = "build_dpi_packets"

\* the packet (1-based in the result) and offset of the slot of level i
LevelPacket(i) == ((i - 1) \div 2) + 1
LevelOffset(i) == IF i % 2 = 1 THEN 6 ELSE 10
LevelSlot(r, i) == <<r[LevelPacket(i)][LevelOffset(i)], r[LevelPacket(i)][LevelOffset(i) + 1],
                     r[LevelPacket(i)][LevelOffset(i) + 2], r[LevelPacket(i)][LevelOffset(i) + 3]>>
TemplateSlot(i) == SubSeq(dpi_template[LevelPacket(i)], LevelOffset(i) + 1, LevelOffset(i) + 4)

\* C11: the slot of level i becomes c0, c1, 0x00, c2 when values[i-1] has an
\* exact entry (c0, c1, c2) in dpi_table and keeps its template bytes when the
\* value is 0 or has no exact entry; this holds for the five levels at once,
\* so no level changes another level's slot; 3200 gives 26 26 00 09.
C11_DpiLevelSlots ==
    DpiCall =>
        \A i \in 1..5 :
            LET v       == call.args.values[i - 1]
                entries == {k \in 1..Len(dpi_table) : dpi_table[k][1] = v}
            IN  /\ \A k \in entries :
                      LevelSlot(ret, i) = <<dpi_table[k][2][1], dpi_table[k][2][2], \h00,
                                            dpi_table[k][2][3]>>
                /\ entries = {} => LevelSlot(ret, i) = TemplateSlot(i)
                /\ v = 3200 => LevelSlot(ret, i) = <<\h26, \h26, \h00, \h09>>

\* 3200 on level 2 between a value without entry and another table entry
C11_Witness ==
    /\ DpiCall
    /\ call.args.values[0] = 3300
    /\ call.args.values[1] = 3200
    /\ call.args.values[2] = 16000
    /\ LevelSlot(ret, 1) = <<\h00, \h00, \h00, \h55>>
    /\ LevelSlot(ret, 2) = <<\h26, \h26, \h00, \h09>>

\* the levels among 2..5 that the call disables
DisabledLevels == {h \in 2..5 : ~call.args.enabled[h - 1]}

SomeEnabled == \E i \in 0..4 : call.args.enabled[i]

Max(S) == CHOOSE x \in S : \A y \in S : y <= x

C13_EnabledFrame ==
    DpiCall =>
        LET base == build_dpi_packets([values |-> call.args.values, enabled |-> AllEnabled])
        IN  /\ Len(ret) = Len(base)
            /\ \A i \in 1..Len(ret) : \A j \in 0..16 :
                  ~(i = 4 /\ j \in {6, 7}) => ret[i][j] = base[i][j]
            /\ (DisabledLevels = {5} /\ call.args.enabled[0])
                  => <<ret[4][6], ret[4][7]>> = <<\h04, \h51>>
            /\ (\A k \in 0..4 : ~call.args.enabled[k])
                  => ret = base /\ <<ret[4][6], ret[4][7]>> = <<\h05, \h50>>

\* all five levels disabled next to a set level
C13_Witness ==
    /\ DpiCall
    /\ \A k \in 0..4 : ~call.args.enabled[k]
    /\ call.args.values[4] = 3200
    /\ ret[4][6] = \h05

\* C14: build_dpi_packets returns 7 packets: the 4 DPI packets with the
\* header and address of their template, in template order, then the 3
\* companion packets, equal to unknown2.
C14_DpiResultLayout ==
    DpiCall =>
        /\ Len(ret) = 7
        /\ \A i \in 1..4 : \A j \in 0..5 : ret[i][j] = dpi_template[i][j + 1]
        /\ \A i \in 1..3 : \A j \in 0..16 : ret[4 + i][j] = unknown2[i][j + 1]

\* a level set and a level disabled: the companions still follow unchanged
C14_Witness ==
    /\ DpiCall
    /\ call.args.values[0] = 3200
    /\ ~call.args.enabled[4]
    /\ Len(ret) = 7
    /\ ret[7][4] = \h3c


---------------------------------------------------------------------------
(* Properties of build_led_packets and build_polling_rate_packet.         *)

LedCall == call.fn = "build_led_packets"

\* C15: build_led_packets returns 1 packet for Off, 2 for Rainbow, 1 for
\* Steady and 2 for Respiration, whatever color, brightness and speed are;
\* the packets of Off and Rainbow are the templates, whatever the parameters.
C15_LedPacketCounts ==
    LedCall =>
        /\ Len(ret) = (CASE call.args.mode = "Off" -> 1
                         [] call.args.mode = "Rainbow" -> 2
                         [] call.args.mode = "Steady" -> 1
                         [] call.args.mode = "Respiration" -> 2)
        /\ call.args.mode = "Off" =>
              \A j \in 0..16 : ret[1][j] = led_off[1][j + 1]
        /\ call.args.mode = "Rainbow" =>
              \A i \in 1..2 : \A j \in 0..16 : ret[i][j] = led_rainbow[i][j + 1]

\* Rainbow called with parameters that differ from the template bytes
C15_Witness ==
    /\ LedCall
    /\ call.args.mode = "Rainbow"
    /\ call.args.color = \h123456
    /\ call.args.brightness = \h00
    /\ call.args.speed = 5
    /\ Len(ret) = 2
    /\ ret[2][6] = \h03

PollingCall == call.fn = "build_polling_rate_packet"

\* C16: build_polling_rate_packet(hz) returns one packet; byte 6 is 0x01 for
\* hz >= 1000, 0x02 for 500 <= hz < 1000, 0x04 for 250 <= hz < 500 and 0x08
\* below; byte 7 is (0x55 - byte 6) mod 256; byte 16 is 0xEF for every hz.
C16_PollingPacket ==
    PollingCall =>
        LET hz == call.args
        IN  /\ Len(ret) = 1
            /\ ret[1][6] = (CASE hz >= 1000 -> \h01
                              [] hz >= 500 /\ hz < 1000 -> \h02
                              [] hz >= 250 /\ hz < 500 -> \h04
                              [] hz < 250 -> \h08)
            /\ ret[1][7] = (\h55 - ret[1][6]) % 256
            /\ ret[1][16] = \hEF
            /\ hz = 1000 => ret[1][6] = \h01 /\ ret[1][7] = \h54

C16_Witness ==
    /\ PollingCall
    /\ call.args = 1000
    /\ ret[1][7] = \h54
    /\ ret[1][16] = \hEF

ValidRates == {125, 250, 500, 1000}

\* the rate a code stands for (protocol.cpp:525-526)
RateOfCode(code) ==
    CASE code = \h01 -> 1000 [] code = \h02 -> 500 [] code = \h04 -> 250 [] code = \h08 -> 125

\* C17 as stated: for every hz the encoded rate is the largest valid rate that
\* does not exceed hz.
C17_AsStated ==
    PollingCall =>
        /\ \E r \in ValidRates : r <= call.args
        /\ RateOfCode(ret[1][6]) = Max({r \in ValidRates : r <= call.args})

\* C17: for hz >= 125 the encoded rate is the largest of 125, 250, 500, 1000
\* that does not exceed hz; for hz below 125, where there is none, the encoded
\* rate is 125.
C17_RoundDown ==
    PollingCall =>
        RateOfCode(ret[1][6]) =
            IF call.args >= 125 THEN Max({r \in ValidRates : r <= call.args}) ELSE 125

\* a frequency just below a valid rate
C17_Witness ==
    /\ PollingCall
    /\ call.args = 999
    /\ ret[1][6] = \h02


---------------------------------------------------------------------------
(* The configuration session of main (main.cpp:620-718) on an open device: *)
(* the setting categories of the configuration file and of the command    *)
(* line are built and sent one after the other with send_sequence and     *)
(* send_cmd, then the two commit packets, then the device is closed.  The  *)
(* transfers of libusb are the environment: each one returns a result     *)
(* code chosen from the codes below.                                      *)

\* main.cpp:113  the number of receive attempts of one send_cmd
MaxAttempts == 15

\* libusb result codes of a control transfer: the 17 bytes written, or
\* LIBUSB_ERROR_IO (-1), LIBUSB_ERROR_NO_DEVICE (-4), LIBUSB_ERROR_TIMEOUT (-7)
ControlResults == {M913_PACKET_SIZE, -1, -4, -7}

\* r and transferred of an interrupt transfer: success with 17 bytes or with
\* none, LIBUSB_ERROR_TIMEOUT (-7) and LIBUSB_ERROR_NO_DEVICE (-4)
InterruptResults ==
    {[r |-> 0, transferred |-> M913_PACKET_SIZE], [r |-> 0, transferred |-> 0],
     [r |-> -7, transferred |-> 0], [r |-> -4, transferred |-> 0]}

\* usb.cpp:55-76  UsbMouse::send: whether it throws
send(r) == [throws |-> r < 0]

\* mutant: every error code taken for "no data"
try_recv_ErrorsAsNoData(r, transferred) ==
    IF r < 0 THEN [throws |-> FALSE, value |-> 0]
    ELSE [throws |-> FALSE, value |-> transferred]

\* usb.cpp:105-124  UsbMouse::try_recv: whether it throws, and its value
try_recv(r, transferred) ==
    IF r = -7 THEN [throws |-> FALSE, value |-> 0]
    ELSE IF r < 0 THEN [throws |-> TRUE, value |-> 0]
    ELSE [throws |-> FALSE, value |-> transferred]

\* mutant: the loop left before the first attempt
PollAgain_Never(a, g) == FALSE

\* mutant: the loop not left when data arrived
PollAgain_IgnoresGot(a, g) == a < MaxAttempts

\* main.cpp:113  attempt < 15 && got == 0
PollAgain(a, g) == a < MaxAttempts /\ g = 0

\* main.cpp:703-706
commit ==
    LET c == [ZeroPacket EXCEPT ![0] = \h08, ![1] = \h04]
    IN  [c EXCEPT ![16] = compute_checksum(c)]

\* main.cpp:139-157 and 668-684: the button -> action string entries whose
\* action parse_action accepts
ParsedButtons(buttons) == {b \in DOMAIN buttons : parse_action(buttons[b]).ok}

\* main.cpp:152 / 679  btn_changes
ButtonChanges(buttons) ==
    [b \in ParsedButtons(buttons) |-> parse_action(buttons[b]).out]

\* main.cpp:154-156 / 681-683  the strings handed to register_multikey_action
Registered(buttons, registry) ==
    LET multi == {b \in ParsedButtons(buttons) :
                     LET ab == parse_action(buttons[b]).out
                     IN  ab[0] = \h90 /\ ab[3] > 1}
    IN  [b \in DOMAIN registry \cup multi |->
            IF b \in multi THEN buttons[b] ELSE registry[b]]

\* main.cpp:632-638  the DpiSettings of the --dpi arguments
InlineDpi(dpi_args) ==
    [values  |-> [i \in 0..4 |-> IF i + 1 \in DOMAIN dpi_args THEN dpi_args[i + 1] ELSE 0],
     enabled |-> AllEnabled]

\* main.cpp:643-659  the LedMode of the --led argument
InlineLedMode(led_arg) ==
    LET sl == to_lower(led_arg)
    IN  IF sl = "off" THEN "Off"
        ELSE IF sl = "rainbow" THEN "Rainbow"
        ELSE IF sl = "static" \/ sl = "steady" THEN "Steady"
        ELSE IF sl = "breathing" \/ sl = "respiration" THEN "Respiration"
        ELSE "unknown"

NoConfigFile == [present |-> FALSE]

\* configuration files: nothing set; one button; two buttons, one with an
\* unknown action; DPI, LED and polling rate set
ConfigFileInputs ==
    {NoConfigFile,
     [present |-> TRUE, buttons |-> <<>>,
      dpi |-> [values |-> [i \in 0..4 |-> 0], enabled |-> AllEnabled],
      led_set |-> FALSE, mouse_set |-> FALSE],
     [present |-> TRUE, buttons |-> (0 :> "ctrl+c"),
      dpi |-> [values |-> [i \in 0..4 |-> 0], enabled |-> AllEnabled],
      led_set |-> FALSE, mouse_set |-> FALSE],
     [present |-> TRUE, buttons |-> (0 :> "ctrl+c" @@ 1 :> "zz"),
      dpi |-> [values |-> [i \in 0..4 |-> 0], enabled |-> AllEnabled],
      led_set |-> FALSE, mouse_set |-> FALSE],
     [present |-> TRUE, buttons |-> <<>>,
      dpi |-> [values |-> [i \in 0..4 |-> IF i = 0 THEN 3200 ELSE 0],
               enabled |-> [i \in 0..4 |-> i # 4]],
      led_set |-> TRUE, led |-> [mode |-> "Respiration", color |-> \h123456,
                                 brightness |-> \h80, speed |-> 5],
      mouse_set |-> TRUE, polling_rate |-> 500]}

\* command lines: --dpi, --led, --button and --polling-rate, given or not
DpiArgInputs == {<<>>, (1 :> 3200)}
LedArgInputs == {"", "Off", "blink"}
ButtonArgInputs == {<<>>, (0 :> "a"), (1 :> "ctrl+shift+alt+a"), (0 :> "a" @@ 1 :> "zz")}
PollingArgInputs == {0, 1000}

\* a run with a configuration file, or with arguments on the command line
SessionInputs ==
    {[config |-> c, dpi_args |-> <<>>, led_arg |-> "", btn_args |-> <<>>,
      polling_rate_arg |-> 0] : c \in ConfigFileInputs}
    \cup
    {[config |-> NoConfigFile, dpi_args |-> d, led_arg |-> l, btn_args |-> b,
      polling_rate_arg |-> h] :
        d \in DpiArgInputs, l \in LedArgInputs, b \in ButtonArgInputs, h \in PollingArgInputs}

\* config.cpp:235-262  validate_config returns without throwing
ValidConfig(cfg) ==
    /\ cfg.mouse_set => cfg.polling_rate \in {125, 250, 500, 1000}
    /\ \A i \in 0..4 :
          LET v == cfg.dpi.values[i]
          IN  v = 0 \/ (v >= 100 /\ v <= 16000 /\ v % 100 = 0)
    /\ \A b \in DOMAIN cfg.buttons : parse_action(cfg.buttons[b]).ok

\* main.cpp:626-627  validate_config, then the categories apply_config
\* (main.cpp:136-185) sends for cfg, in its order
ConfigCategories(cfg) ==
    <<[kind |-> "validate", config |-> cfg]>>
    \o <<[kind |-> "buttons", inline |-> FALSE, buttons |-> cfg.buttons]>>
    \o (IF \E i \in 0..4 : cfg.dpi.values[i] # 0
        THEN <<[kind |-> "dpi", dpi |-> cfg.dpi]>> ELSE <<>>)
    \o (IF cfg.led_set THEN <<[kind |-> "led", led |-> cfg.led]>> ELSE <<>>)
    \o (IF cfg.mouse_set THEN <<[kind |-> "polling", hz |-> cfg.polling_rate]>> ELSE <<>>)

\* main.cpp:620-708  the categories of one run, in the order main sends them
Categories(s) ==
    (IF s.config.present THEN ConfigCategories(s.config) ELSE <<>>)
    \o (IF s.dpi_args # <<>> THEN <<[kind |-> "dpi", dpi |-> InlineDpi(s.dpi_args)]>> ELSE <<>>)
    \o (IF s.led_arg # ""
        THEN <<[kind |-> "led", led |-> [mode |-> InlineLedMode(s.led_arg), color |-> \h00ff00,
                                         brightness |-> \hff, speed |-> \h03]]>>
        ELSE <<>>)
    \o (IF s.btn_args # <<>>
        THEN <<[kind |-> "buttons", inline |-> TRUE, buttons |-> s.btn_args]>> ELSE <<>>)
    \o (IF s.polling_rate_arg # 0
        THEN <<[kind |-> "polling", hz |-> s.polling_rate_arg]>> ELSE <<>>)
    \o <<[kind |-> "commit"]>>

\* main.cpp:621-697  did_config when the commit step is reached
DidConfig(s) ==
    \/ s.config.present
    \/ s.dpi_args # <<>> \/ s.led_arg # "" \/ s.btn_args # <<>>
    \/ s.polling_rate_arg # 0

\* the packets built for category d, and whether a store went out of bounds
BuildCategory(d, registry) ==
    IF d.kind = "validate" THEN [result |-> <<>>, oob |-> FALSE]
    ELSE IF d.kind = "buttons"
    THEN IF ButtonChanges(d.buttons) = <<>> /\ ~d.inline
         THEN [result |-> <<>>, oob |-> FALSE]
         ELSE build_button_mapping(ButtonChanges(d.buttons), Registered(d.buttons, registry))
    ELSE IF d.kind = "dpi" THEN [result |-> build_dpi_packets(d.dpi), oob |-> FALSE]
    ELSE IF d.kind = "led"
    THEN [result |-> build_led_packets(d.led.mode, d.led.color, d.led.brightness, d.led.speed),
          oob |-> FALSE]
    ELSE IF d.kind = "polling"
    THEN [result |-> <<build_polling_rate_packet(d.hz)>>, oob |-> FALSE]
    ELSE [result |-> <<commit, commit>>, oob |-> FALSE]

\* a configuration that validate_config rejects (main.cpp:626, 710-713) and
\* a --led or --button argument that main rejects (main.cpp:654-657 and
\* 674-678)
RejectedInline(d) ==
    \/ d.kind = "validate" /\ ~ValidConfig(d.config)
    \/ d.kind = "led" /\ d.led.mode = "unknown"
    \/ d.kind = "buttons" /\ d.inline /\ ParsedButtons(d.buttons) # DOMAIN d.buttons

\* the runs, as the categories they send and their did_config
Plans == {[queue |-> Categories(s), did_config |-> DidConfig(s)] : s \in SessionInputs}

\* every category of every run
CategoryInputs == UNION {{p.queue[i] : i \in 1..Len(p.queue)} : p \in Plans}

\* the categories main rejects before it builds anything
Rejected == {d \in CategoryInputs : RejectedInline(d)}

\* the packets main builds for each category.  g_multikey_actions is empty
\* when main starts and after every build_button_mapping, so every category
\* is built from an empty registry and the strings it registers itself.
Built == [d \in CategoryInputs \ Rejected |-> BuildCategory(d, <<>>)]

\* main.cpp:620  the run reaches the configuration part with the device open
StartSession ==
    /\ pc = "start"
    /\ call = NoCall
    /\ g_multikey_actions = <<>>
    /\ \E p \in Plans :
         /\ queue' = p.queue
         /\ did_config' = p.did_config
    /\ pc' = "next"
    /\ UNCHANGED <<pkts, pkt_i, attempt, got, tx, rx, wire, seqs, fault, exit_code, handle_open>>
    /\ UNCHANGED <<builderVars, extVars>>

\* main.cpp:123-131  send_sequence is entered with the packets of the next
\* category; an empty sequence, and the commit of a run without
\* configuration, sends nothing
BeginSequence ==
    /\ pc = "next"
    /\ queue # <<>>
    /\ Head(queue) \notin Rejected
    /\ \E p \in {IF Head(queue).kind = "commit" /\ ~did_config
                  THEN <<>> ELSE Built[Head(queue)].result} :
         /\ queue' = Tail(queue)
         /\ g_multikey_actions' = <<>>
         /\ IF p = <<>>
            THEN UNCHANGED <<pc, pkts, pkt_i, seqs>>
            ELSE /\ pkts' = p
                 /\ pkt_i' = 1
                 /\ seqs' = Append(seqs, p)
                 /\ pc' = "send"
    /\ UNCHANGED <<did_config, attempt, got, tx, rx, wire, fault, exit_code, handle_open>>
    /\ UNCHANGED <<call, ret, aborted, extVars>>

\* the build of the next category stored past the end of a packet and the
\* process was terminated
BuildAborts ==
    /\ pc = "next"
    /\ queue # <<>>
    /\ Head(queue) \notin Rejected
    /\ Built[Head(queue)].oob
    /\ aborted' = TRUE
    /\ pc' = "aborted"
    /\ UNCHANGED <<queue, did_config, pkts, pkt_i, attempt, got, tx, rx, wire, seqs, fault,
                   exit_code, handle_open>>
    /\ UNCHANGED <<g_multikey_actions, call, ret, extVars>>

\* main.cpp:626 with 710-713, 654-657 and 674-678  a configuration that
\* validate_config rejects, an unknown LED mode or an unknown action on the
\* command line: exit code 1 and on to cleanup
RejectInline ==
    /\ pc = "next"
    /\ queue # <<>>
    /\ Head(queue) \in Rejected
    /\ exit_code' = 1
    /\ pc' = "cleanup"
    /\ UNCHANGED <<queue, did_config, pkts, pkt_i, attempt, got, tx, rx, wire, seqs, fault, handle_open>>
    /\ UNCHANGED <<builderVars, extVars>>

\* main.cpp:100  mouse.send(p.data()), and main.cpp:111-113 when it returns;
\* main.cpp:710-713 when it throws
SendPacket ==
    /\ pc = "send"
    /\ \E r \in ControlResults :
         IF send(r).throws
         THEN /\ tx' = r
              /\ fault' = TRUE
              /\ exit_code' = 1
              /\ pc' = "cleanup"
              /\ UNCHANGED <<wire, attempt, got>>
         ELSE /\ tx' = r
              /\ wire' = Append(wire, pkts[pkt_i])
              /\ attempt' = 0
              /\ got' = 0
              /\ pc' = "poll"
              /\ UNCHANGED <<fault, exit_code>>
    /\ UNCHANGED <<queue, did_config, pkts, pkt_i, rx, seqs, handle_open>>
    /\ UNCHANGED <<builderVars, extVars>>

\* main.cpp:113-114  one pass of the acknowledgement loop
TryRecv ==
    /\ pc = "poll"
    /\ PollAgain(attempt, got)
    /\ \E t \in InterruptResults :
         /\ rx' = t
         /\ IF try_recv(t.r, t.transferred).throws
            THEN /\ fault' = TRUE
                 /\ exit_code' = 1
                 /\ pc' = "cleanup"
                 /\ UNCHANGED <<attempt, got>>
            ELSE /\ got' = try_recv(t.r, t.transferred).value
                 /\ attempt' = attempt + 1
                 /\ UNCHANGED <<pc, fault, exit_code>>
    /\ UNCHANGED <<queue, did_config, pkts, pkt_i, tx, wire, seqs, handle_open>>
    /\ UNCHANGED <<builderVars, extVars>>

\* main.cpp:116-119 and 128: the loop is left, send_cmd returns (its locals
\* buf, got and attempt end with it) and send_sequence goes on with the next
\* packet or returns
EndCmd ==
    /\ pc = "poll"
    /\ ~PollAgain(attempt, got)
    /\ IF pkt_i < Len(pkts)
       THEN pkt_i' = pkt_i + 1 /\ pc' = "send"
       ELSE pkt_i' = pkt_i /\ pc' = "next"
    /\ attempt' = 0
    /\ got' = 0
    /\ rx' = NoTransfer
    /\ UNCHANGED <<queue, did_config, pkts, tx, wire, seqs, fault, exit_code, handle_open>>
    /\ UNCHANGED <<builderVars, extVars>>

\* main.cpp:708-715  the end of the try block is reached
EndOfRun ==
    /\ pc = "next"
    /\ queue = <<>>
    /\ pc' = "cleanup"
    /\ UNCHANGED <<queue, did_config, pkts, pkt_i, attempt, got, tx, rx, wire, seqs, fault,
                   exit_code, handle_open>>
    /\ UNCHANGED <<builderVars, extVars>>

\* main.cpp:715-717  cleanup: mouse.close(); return exit_code
Close ==
    /\ pc = "cleanup"
    /\ handle_open' = FALSE
    /\ pc' = "exit"
    /\ UNCHANGED <<queue, did_config, pkts, pkt_i, attempt, got, tx, rx, wire, seqs, fault, exit_code>>
    /\ UNCHANGED <<builderVars, extVars>>

NextSend ==
    \/ StartSession
    \/ BeginSequence
    \/ BuildAborts
    \/ RejectInline
    \/ SendPacket
    \/ TryRecv
    \/ EndCmd
    \/ EndOfRun
    \/ Close

SpecSend == Init /\ [][NextSend]_vars

---------------------------------------------------------------------------
(* Properties of the configuration session.                               *)

RECURSIVE Flat(_)
\* the packets of a list of sequences, in order
Flat(ss) == IF ss = <<>> THEN <<>> ELSE Head(ss) \o Flat(Tail(ss))

\* the sequences handed to send_sequence before the current one
Earlier == IF seqs = <<>> THEN <<>> ELSE SubSeq(seqs, 1, Len(seqs) - 1)

\* send_cmd left the acknowledgement loop and returned
CmdReturns == pc = "poll" /\ pc' \in {"send", "next"}

\* one pass of the acknowledgement loop ran
ReceiveAttempt == pc = "poll" /\ pc' \notin {"send", "next"}

\* what has been delivered is exactly the sequences so far, in order, up to
\* the packet send_sequence is at
SentInOrder ==
    /\ pc = "send" => /\ pkts = seqs[Len(seqs)]
                      /\ pkt_i \in 1..Len(pkts)
                      /\ wire = Flat(Earlier) \o SubSeq(pkts, 1, pkt_i - 1)
    /\ pc = "poll" => /\ pkts = seqs[Len(seqs)]
                      /\ pkt_i \in 1..Len(pkts)
                      /\ wire = Flat(Earlier) \o SubSeq(pkts, 1, pkt_i)
    /\ pc = "next" => wire = Flat(seqs)
    /\ pc \in {"cleanup", "exit"} /\ exit_code = 0 => wire = Flat(seqs)

\* C18: the packets of a sequence are sent in sequence order, each exactly
\* once, none skipped, repeated or reordered, and the next packet is sent only
\* after the acknowledgement polling of the one before has finished: an
\* acknowledgement was read or all receive attempts were used.
C18_SendInOrder ==
    /\ []SentInOrder
    /\ [][wire' # wire => /\ pc = "send"
                          /\ pc' = "poll"
                          /\ wire' = Append(wire, pkts[pkt_i])]_vars
    /\ [][CmdReturns => got # 0 \/ attempt = MaxAttempts]_vars
    /\ [][pc = "poll" /\ pc' = "send" => pkts' = pkts /\ pkt_i' = pkt_i + 1]_vars

\* a run that sent two sequences completely and ended with exit code 0
C18_Witness ==
    /\ pc = "exit"
    /\ exit_code = 0
    /\ ~aborted
    /\ Len(seqs) >= 2
    /\ Len(seqs[1]) = 7
    /\ wire = Flat(seqs)

\* C19: after each send, send_cmd makes at least 1 and at most 15 try_recv
\* attempts and stops at the first one that returns a non-zero byte count; a
\* timeout is a zero return and never an error; after 15 attempts without
\* data send_cmd returns normally and the next packet of the sequence is the
\* next one sent; during the polling no packet is altered or sent again.
C19_AckPolling ==
    /\ [](attempt \in 0..MaxAttempts)
    /\ [][attempt' = attempt + 1 => got = 0 /\ attempt < MaxAttempts]_vars
    /\ [][CmdReturns => attempt >= 1]_vars
    /\ [][ReceiveAttempt /\ rx'.r = -7 =>
              /\ got' = 0
              /\ attempt' = attempt + 1
              /\ pc' = "poll"
              /\ fault' = fault
              /\ exit_code' = exit_code]_vars
    /\ [][pc = "poll" /\ attempt = MaxAttempts /\ got = 0 =>
              /\ ~fault'
              /\ exit_code' = exit_code
              /\ IF pkt_i < Len(pkts)
                 THEN pc' = "send" /\ pkt_i' = pkt_i + 1
                 ELSE pc' = "next"]_vars
    /\ [][pc = "poll" => wire' = wire /\ pkts' = pkts]_vars
    /\ [][pc = "send" /\ pc' = "poll" => wire' = Append(wire, pkts[pkt_i])]_vars

\* fifteen timeouts in a row for a packet that is not the last of its
\* sequence, after an earlier packet was acknowledged
C19_Witness ==
    /\ pc = "poll"
    /\ attempt = MaxAttempts
    /\ got = 0
    /\ rx.r = -7
    /\ 1 < pkt_i /\ pkt_i < Len(pkts)
    /\ ~fault
    /\ exit_code = 0

\* a control transfer, or a receive attempt, that failed with an error other
\* than a timeout
SendFault == pc = "send" /\ tx' < 0 /\ tx' # -7

ReceiveFault == ReceiveAttempt /\ rx'.r < 0 /\ rx'.r # -7

\* C20: when the send of a packet, or a receive attempt of its polling, fails
\* with an error other than a timeout, the session is aborted: the packet and
\* everything after it (the rest of the sequence, the later categories, the
\* commit packets) is not sent, the device is closed and the exit code is not 0.
C20_FaultAborts ==
    /\ [][SendFault \/ ReceiveFault =>
              fault' /\ pc' = "cleanup" /\ exit_code' # 0 /\ wire' = wire]_vars
    /\ [](fault => pc \in {"cleanup", "exit"} /\ exit_code # 0)
    /\ [][fault => wire' = wire /\ seqs' = seqs /\ queue' = queue]_vars
    /\ [][fault /\ pc = "cleanup" => pc' = "exit" /\ ~handle_open']_vars
    /\ [](fault /\ pc = "exit" => ~handle_open)

\* the device went away during the polling of a packet in the middle of a
\* sequence, with categories still to send: the run ended with the device
\* closed and exit code 1
C20_Witness ==
    /\ fault
    /\ rx.r = -4
    /\ pc = "exit"
    /\ ~handle_open
    /\ exit_code = 1
    /\ wire # <<>>
    /\ Len(wire) < Len(Flat(seqs))
    /\ Len(queue) >= 2

\* a configuration packet (any packet but the finalize packet) was delivered
ConfigPacketSent == \E i \in 1..Len(wire) : wire[i] # commit

\* the last two packets delivered are the two finalize packets
EndsWithCommit ==
    /\ Len(wire) >= 2
    /\ wire[Len(wire)] = commit
    /\ wire[Len(wire) - 1] = commit

\* C21: a run that delivered at least one configuration packet and met no
\* transport fault has delivered, when the device is closed, the two finalize
\* packets 08 04 00 ... 00 49 as its last two packets.
C21_EndsWithFinalize ==
    pc = "exit" /\ ConfigPacketSent /\ ~fault => EndsWithCommit

---------------------------------------------------------------------------
(* The UsbMouse of main (usb.cpp:16-53 and 173-200, main.cpp:383-718): it  *)
(* is opened, its two interfaces are claimed, main runs and the device is *)
(* closed, by close() at cleanup and by the destructor when main returns. *)
(* The results of the libusb calls are the environment.                   *)

\* libusb result codes of detach and claim: success, LIBUSB_ERROR_ACCESS (-3)
\* and LIBUSB_ERROR_BUSY (-6)
DetachResults == {0, -3}
ClaimResults == {0, -6}

\* libusb_attach_kernel_driver for the two interfaces: success or
\* LIBUSB_ERROR_BUSY (-6); close() does not look at the result
AttachResults == [0..1 -> {0, -6}]

\* the ways main's try block (main.cpp:407-714) ends: its end is reached, a
\* transfer throws and the catch runs, an argument is rejected (goto cleanup)
BodyOutcomes == {"end", "fault", "rejected"}

\* usb.cpp:45-53 with 196-200  close(): the state of the object and of
\* libusb after it
close(h, det, cl, kd, c, ar) ==
    IF ~h THEN [handle |-> h, claimed |-> cl, kernel_driver |-> kd, calls |-> c]
    ELSE [handle  |-> FALSE,
          claimed |-> [i \in 0..1 |-> FALSE],
          kernel_driver |-> [i \in 0..1 |-> kd[i] \/ (det[i] /\ ar[i] = 0)],
          calls   |-> [c EXCEPT !.release = [i \in 0..1 |-> c.release[i] + 1],
                                !.attach  = [i \in 0..1 |->
                                                c.attach[i] + (IF det[i] THEN 1 ELSE 0)],
                                !.close   = c.close + 1]]

\* usb.cpp:24-37  libusb_open_device_with_vid_pid, and main.cpp:400-402 when
\* open throws
UsbOpen ==
    /\ usb_pc = "open"
    /\ \E found \in BOOLEAN :
         IF found
         THEN /\ handle' = TRUE
              /\ calls' = [calls EXCEPT !.open = @ + 1]
              /\ kernel_driver' \in [0..1 -> BOOLEAN]
              /\ usb_pc' = "claim0"
              /\ UNCHANGED exit_path
         ELSE /\ usb_pc' = "return"
              /\ exit_path' = "open"
              /\ UNCHANGED <<handle, calls, kernel_driver>>
    /\ UNCHANGED <<detached, claimed>>
    /\ UNCHANGED <<builderVars, sessVars, listenVars, ackVars>>

\* usb.cpp:173-194  _claim_interface(iface, _detached_iface<iface>), called
\* at usb.cpp:41 and 42, and main.cpp:400-402 when it throws
ClaimInterface(iface) ==
    /\ usb_pc = (IF iface = 0 THEN "claim0" ELSE "claim1")
    /\ \E dr \in DetachResults, cr \in ClaimResults :
         LET active == kernel_driver[iface]
         IN  /\ active \/ dr = 0
             /\ (active /\ dr < 0) => cr = 0
             /\ detached' = [detached EXCEPT ![iface] = active /\ dr >= 0]
             /\ kernel_driver' = [kernel_driver EXCEPT ![iface] = active /\ dr < 0]
             /\ IF active /\ dr < 0
                THEN /\ usb_pc' = "return"
                     /\ exit_path' = (IF iface = 0 THEN "detach0" ELSE "detach1")
                     /\ UNCHANGED <<claimed, calls>>
                ELSE IF cr < 0
                THEN /\ usb_pc' = "return"
                     /\ exit_path' = (IF iface = 0 THEN "claim0" ELSE "claim1")
                     /\ calls' = [calls EXCEPT !.detach[iface] = @ + (IF active THEN 1 ELSE 0)]
                     /\ UNCHANGED claimed
                ELSE /\ usb_pc' = (IF iface = 0 THEN "claim1" ELSE "drain")
                     /\ calls' = [calls EXCEPT !.detach[iface] = @ + (IF active THEN 1 ELSE 0),
                                               !.claim[iface] = @ + 1]
                     /\ claimed' = [claimed EXCEPT ![iface] = TRUE]
                     /\ UNCHANGED exit_path
    /\ UNCHANGED handle
    /\ UNCHANGED <<builderVars, sessVars, listenVars, ackVars>>

\* main.cpp:390-402  the receive that drains the init packet
Drain ==
    /\ usb_pc = "drain"
    /\ \E t \in InterruptResults :
         IF try_recv(t.r, t.transferred).throws
         THEN usb_pc' = "return" /\ exit_path' = "drain"
         ELSE usb_pc' = "body" /\ UNCHANGED exit_path
    /\ UNCHANGED <<handle, detached, claimed, kernel_driver, calls>>
    /\ UNCHANGED <<builderVars, sessVars, listenVars, ackVars>>

\* main.cpp:407-714  the try block, up to the label cleanup
Body ==
    /\ usb_pc = "body"
    /\ \E o \in BodyOutcomes : exit_path' = o
    /\ usb_pc' = "cleanup"
    /\ UNCHANGED <<handle, detached, claimed, kernel_driver, calls>>
    /\ UNCHANGED <<builderVars, sessVars, listenVars, ackVars>>

\* main.cpp:716-717  mouse.close()
CloseAtCleanup ==
    /\ usb_pc = "cleanup"
    /\ \E ar \in AttachResults :
         \E after \in {close(handle, detached, claimed, kernel_driver, calls, ar)} :
            /\ handle' = after.handle
            /\ claimed' = after.claimed
            /\ kernel_driver' = after.kernel_driver
            /\ calls' = after.calls
    /\ usb_pc' = "return"
    /\ UNCHANGED <<detached, exit_path>>
    /\ UNCHANGED <<builderVars, sessVars, listenVars, ackVars>>

\* usb.cpp:16-22  ~UsbMouse, when main returns (main.cpp:402 and 718)
Destructor ==
    /\ usb_pc = "return"
    /\ \E ar \in AttachResults :
         \E after \in {close(handle, detached, claimed, kernel_driver, calls, ar)} :
            /\ handle' = after.handle
            /\ claimed' = after.claimed
            /\ kernel_driver' = after.kernel_driver
            /\ calls' = after.calls
    /\ usb_pc' = "done"
    /\ UNCHANGED <<detached, exit_path>>
    /\ UNCHANGED <<builderVars, sessVars, listenVars, ackVars>>

NextUsb ==
    \/ UsbOpen
    \/ ClaimInterface(0)
    \/ ClaimInterface(1)
    \/ Drain
    \/ Body
    \/ CloseAtCleanup
    \/ Destructor

SpecUsb == Init /\ [][NextUsb]_vars

\* C22: when main has returned, whatever the exit path after open was
\* attempted, every interface that was claimed has been released exactly
\* once and no other interface has been released, every kernel driver that
\* was detached has been re-attached exactly once, and the handle has been
\* closed exactly once if it was opened; close() followed by the destructor
\* releases and re-attaches nothing a second time.
C22_ReleasedExactlyOnce ==
    usb_pc = "done" =>
        /\ \A i \in 0..1 : calls.release[i] = calls.claim[i]
        /\ \A i \in 0..1 : calls.attach[i] = calls.detach[i]
        /\ calls.close = calls.open

\* the buttons of category d, of a configuration file or of the command line
ButtonsOf(d) ==
    IF d.kind = "validate" THEN d.config.buttons
    ELSE IF d.kind = "buttons" THEN d.buttons
    ELSE <<>>

\* a button of d has an action string that parse_action does not resolve
HasUnresolvedAction(d) ==
    \E b \in DOMAIN ButtonsOf(d) : ~parse_action(ButtonsOf(d)[b]).ok

\* C23: an action string that the action table does not resolve makes the
\* driver skip that button only: the button mapping of the other buttons,
\* the remaining categories and the finalize packets are still sent, so a
\* run that met no transport fault never ends at a category left unsent
\* because one of its buttons has such an action.
C23_SkipsOnlyThatButton ==
    pc = "exit" /\ ~fault /\ ~aborted =>
        \A i \in 1..Len(queue) : ~HasUnresolvedAction(queue[i])

---------------------------------------------------------------------------
(* Further properties of the sub-packets and slots of a button-mapping    *)
(* call and of the LED packets.                                           *)

\* C24: on the event-list path with m modifiers and k keys, byte 6 of the
\* first sub-packet is the number of events 2*(m+k), and the byte after the
\* last event byte holds (0x55 - (count + sum of all event bytes)) mod 256.
C24_CountAndInnerChecksum ==
    ButtonCallReturned =>
        \A b \in EventButtons :
            LET bk        == BindingKeys(b, call.args[b], call.registry)
                m         == Cardinality(SetBits(bk.mods))
                k         == Len(bk.keys)
                E         == ExpectedEventBytes(bk.mods, bk.keys)
                remaining == Len(E) - (IF Len(E) < 9 THEN Len(E) ELSE 9)
            IN  \E i \in 1..Len(ret) :
                    /\ IsEventPair(b, i)
                    /\ ret[i][6] = 2 * (m + k)
                    /\ 6 + remaining \in DOMAIN ret[i + 1]
                    /\ ret[i + 1][6 + remaining] =
                           (\h55 - (2 * (m + k) + SumOver(E, 1..Len(E)))) % 256

\* the base address of the sub-packets of button b
BaseAddress(b) == \h0100 + \h20 * b

\* the indices of the returned sub-packets addressed to the block of button b
SubPacketsOf(b) ==
    {i \in 1..(Len(ret) - 8) :
        ret[i][3] * 256 + ret[i][4] \in BaseAddress(b)..(BaseAddress(b) + \h1f)}

\* the in-range buttons bound to one key without modifier
PlainKeyButtons ==
    {b \in InRangeButtons :
        /\ call.args[b][0] = \h90
        /\ LET bk == BindingKeys(b, call.args[b], call.registry)
           IN  bk.mods = \h00 /\ Len(bk.keys) = 1}

\* C25: a binding of one key sc without modifier gives exactly one
\* sub-packet: 08 07 00, the two bytes of the base address 0x0100 + 0x20 *
\* button, length 08, payload 02 81 sc 00 41 sc 00 and (0x91 - 2*sc) mod 256
\* at byte 13; for every sc in 0..255 that byte is (0x55 - sum of bytes
\* 6..12) mod 256.
C25_PlainKeySubPacket ==
    ButtonCallReturned =>
        /\ \A b \in PlainKeyButtons :
              LET sc == BindingKeys(b, call.args[b], call.registry).keys[1]
              IN  /\ Cardinality(SubPacketsOf(b)) = 1
                  /\ \A i \in SubPacketsOf(b) :
                        /\ [j \in 0..13 |-> ret[i][j]] =
                               [j \in 0..13 |->
                                   <<\h08, \h07, \h00,
                                     BaseAddress(b) \div 256, BaseAddress(b) % 256, \h08,
                                     \h02, \h81, sc, \h00, \h41, sc, \h00,
                                     (\h91 - 2 * sc) % 256>>[j + 1]]
                        /\ ret[i][13] = (\h55 - SumOver(ret[i], 6..12)) % 256
        /\ PlainKeyButtons # {} =>
              \A sc \in 0..255 :
                  LET sub == PlainKeySubPacket(\h01, \h00, sc)
                  IN  /\ sub[13] = (\h91 - 2 * sc) % 256
                      /\ sub[13] = (\h55 - SumOver(sub, 6..12)) % 256

\* button 1 bound to the key a (scancode 04): one sub-packet at 0x0120 with
\* local checksum 0x89
C25_Witness ==
    /\ ButtonCallReturned
    /\ 1 \in PlainKeyButtons
    /\ \E i \in SubPacketsOf(1) :
          /\ ret[i][3] = \h01 /\ ret[i][4] = \h20
          /\ ret[i][8] = \h04 /\ ret[i][11] = \h04
          /\ ret[i][13] = \h89

\* the in-range buttons bound to a multimedia action
MultimediaButtons == {b \in InRangeButtons : call.args[b][0] = \h92}

\* C26: a multimedia action {0x92, extra, code, extra2} gives exactly one
\* sub-packet, at the button's base address, with length 08, payload
\* 02 82 code extra 42 code extra2 at bytes 6..12, byte 13 equal to (0x55 -
\* sum of bytes 6..12) mod 256, and 00 at bytes 14 and 15.
C26_MultimediaSubPacket ==
    ButtonCallReturned =>
        \A b \in MultimediaButtons :
            LET extra  == call.args[b][1]
                code   == call.args[b][2]
                extra2 == call.args[b][3]
            IN  /\ Cardinality(SubPacketsOf(b)) = 1
                /\ \A i \in SubPacketsOf(b) :
                      /\ ret[i][3] * 256 + ret[i][4] = BaseAddress(b)
                      /\ ret[i][5] = \h08
                      /\ [j \in 6..12 |-> ret[i][j]] =
                             [j \in 6..12 |->
                                 <<\h02, \h82, code, extra, \h42, code, extra2>>[j - 5]]
                      /\ ret[i][13] = (\h55 - SumOver(ret[i], 6..12)) % 256
                      /\ ret[i][14] = \h00 /\ ret[i][15] = \h00

\* button 15 bound to media_play (code cd): one sub-packet at 0x02e0 with
\* local checksum f5
C26_Witness ==
    /\ ButtonCallReturned
    /\ 15 \in MultimediaButtons
    /\ \E i \in SubPacketsOf(15) :
          /\ ret[i][3] = \h02 /\ ret[i][4] = \he0
          /\ ret[i][8] = \hcd /\ ret[i][11] = \hcd
          /\ ret[i][13] = \hf5

\* the mode byte of the two modes that carry a colour
ModeByte(mode) == IF mode = "Steady" THEN \h01 ELSE \h02

\* C27: in the Steady packet and in the first Respiration packet bytes 6..8
\* are R, G, B, byte 9 is (0x55 - R - G - B) mod 256, byte 10 is the mode
\* (0x01 Steady, 0x02 Respiration), byte 11 is 0x55 - mode, byte 12 is the
\* brightness and byte 13 is (0x55 - brightness) mod 256; in the second
\* Respiration packet byte 6 is the speed and byte 7 is (0x55 - speed) mod
\* 256; each inline group sums to 0x55 mod 256.
C27_LedInlineChecksums ==
    LedCall /\ call.args.mode \in {"Steady", "Respiration"} =>
        /\ ret[1][6] = (call.args.color \div 65536) % 256
        /\ ret[1][7] = (call.args.color \div 256) % 256
        /\ ret[1][8] = call.args.color % 256
        /\ ret[1][9] = (\h55 - ret[1][6] - ret[1][7] - ret[1][8]) % 256
        /\ ret[1][10] = ModeByte(call.args.mode)
        /\ ret[1][11] = \h55 - ModeByte(call.args.mode)
        /\ ret[1][12] = call.args.brightness
        /\ ret[1][13] = (\h55 - call.args.brightness) % 256
        /\ SumOver(ret[1], 6..9) % 256 = \h55
        /\ SumOver(ret[1], 10..11) % 256 = \h55
        /\ SumOver(ret[1], 12..13) % 256 = \h55
        /\ call.args.mode = "Respiration" =>
              /\ ret[2][6] = call.args.speed
              /\ ret[2][7] = (\h55 - call.args.speed) % 256
              /\ SumOver(ret[2], 6..7) % 256 = \h55

\* Respiration in white at brightness ff and speed 5: the colour checksum
\* wraps to 58, the brightness checksum to 56
C27_Witness ==
    /\ LedCall
    /\ call.args.mode = "Respiration"
    /\ call.args.color = \hffffff
    /\ call.args.brightness = \hff
    /\ call.args.speed = 5
    /\ ret[1][9] = \h58
    /\ ret[1][10] = \h02
    /\ ret[1][13] = \h56
    /\ ret[2][6] = \h05
    /\ ret[2][7] = \h50

---------------------------------------------------------------------------
(* The listen loops of main (main.cpp:451-593): the loop that follows      *)
(* --raw-send, the --scan-sub block between them, and the --listen loop.   *)
(* SIGINT is delivered at any moment; evaluating a loop condition and      *)
(* entering the try_recv it guards is one step.                            *)

\* the receive attempts counted per loop, saturating
MaxPolls == 3

\* raw_send_hex values whose tokens std::stoul rejects (main.cpp:458-464)
InvalidHex == {"zz"}

\* main.cpp:221-226 as the command line sets them (main.cpp:307-332)
ListenInputs ==
    [raw : {"", "08 04", "zz"}, scan : BOOLEAN, listen : BOOLEAN, listen_ep : {-1, \h82}]

\* main.cpp:560
NEps(listen_ep) == IF listen_ep >= 0 THEN 1 ELSE 2

\* mutant: the flag not looked at between the endpoints
ContinueFor_IgnoresStop(i, n_eps, stop) == i < n_eps

\* main.cpp:573  i < n_eps && !g_stop
ContinueFor(i, n_eps, stop) == i < n_eps /\ ~stop

\* one more receive attempt started by loop l
Polled(l) == [polls EXCEPT ![l] = IF @ < MaxPolls THEN @ + 1 ELSE @]

\* main.cpp:300-335  the command line is read
ListenArgs ==
    /\ lpc = "start"
    /\ \E o \in ListenInputs : opts' = o
    /\ lpc' = "raw"
    /\ UNCHANGED <<g_stop, handler, ep_i, polls, lfault>>
    /\ UNCHANGED <<builderVars, sessVars, usbVars, ackVars>>

\* main.cpp:451-495  --raw-send: the packet is parsed and sent, two
\* responses are awaited and the handler is installed
RawSend ==
    /\ lpc = "raw"
    /\ IF opts.raw = ""
       THEN lpc' = "scan" /\ UNCHANGED <<handler, lfault>>
       ELSE IF opts.raw \in InvalidHex
       THEN lpc' = "cleanup" /\ UNCHANGED <<handler, lfault>>
       ELSE \E r \in ControlResults, t1 \in InterruptResults, t2 \in InterruptResults :
               IF \/ send(r).throws
                  \/ try_recv(t1.r, t1.transferred).throws
                  \/ try_recv(t2.r, t2.transferred).throws
               THEN lfault' = TRUE /\ lpc' = "cleanup" /\ UNCHANGED handler
               ELSE handler' = TRUE /\ lpc' = "raw_while" /\ UNCHANGED lfault
    /\ UNCHANGED <<g_stop, opts, ep_i, polls>>
    /\ UNCHANGED <<builderVars, sessVars, usbVars, ackVars>>

\* main.cpp:499-501  while (!g_stop), then the first endpoint is polled
RawWhile ==
    /\ lpc = "raw_while"
    /\ IF ~g_stop
       THEN ep_i' = 0 /\ polls' = Polled("raw") /\ lpc' = "raw_recv"
       ELSE lpc' = "scan" /\ UNCHANGED <<ep_i, polls>>
    /\ UNCHANGED <<g_stop, handler, opts, lfault>>
    /\ UNCHANGED <<builderVars, sessVars, usbVars, ackVars>>

\* main.cpp:501-511  try_recv returns or throws
RawRecv ==
    /\ lpc = "raw_recv"
    /\ \E t \in InterruptResults :
          IF try_recv(t.r, t.transferred).throws
          THEN lfault' = TRUE /\ lpc' = "cleanup"
          ELSE lpc' = "raw_break" /\ UNCHANGED lfault
    /\ UNCHANGED <<g_stop, handler, opts, ep_i, polls>>
    /\ UNCHANGED <<builderVars, sessVars, usbVars, ackVars>>

\* main.cpp:512  if (g_stop) break; otherwise the for loop goes on
RawBreak ==
    /\ lpc = "raw_break"
    /\ IF g_stop
       THEN lpc' = "raw_while" /\ UNCHANGED <<ep_i, polls>>
       ELSE IF ep_i = 0
       THEN ep_i' = 1 /\ polls' = Polled("raw") /\ lpc' = "raw_recv"
       ELSE lpc' = "raw_while" /\ UNCHANGED <<ep_i, polls>>
    /\ UNCHANGED <<g_stop, handler, opts, lfault>>
    /\ UNCHANGED <<builderVars, sessVars, usbVars, ackVars>>

\* main.cpp:518-552  --scan-sub: send errors are caught, a failed receive
\* leaves the block
ScanSub ==
    /\ lpc = "scan"
    /\ IF ~opts.scan
       THEN lpc' = "listen" /\ UNCHANGED lfault
       ELSE \E t \in InterruptResults :
               IF try_recv(t.r, t.transferred).throws
               THEN lfault' = TRUE /\ lpc' = "cleanup"
               ELSE lpc' = "listen" /\ UNCHANGED lfault
    /\ UNCHANGED <<g_stop, handler, opts, ep_i, polls>>
    /\ UNCHANGED <<builderVars, sessVars, usbVars, ackVars>>

\* main.cpp:555-570  --listen: the handler is installed
ListenEnter ==
    /\ lpc = "listen"
    /\ IF opts.listen
       THEN handler' = TRUE /\ lpc' = "listen_while"
       ELSE lpc' = "rest" /\ UNCHANGED handler
    /\ UNCHANGED <<g_stop, opts, ep_i, polls, lfault>>
    /\ UNCHANGED <<builderVars, sessVars, usbVars, ackVars>>

\* main.cpp:572-573  while (!g_stop), int i = 0
ListenWhile ==
    /\ lpc = "listen_while"
    /\ IF ~g_stop
       THEN ep_i' = 0 /\ lpc' = "listen_for"
       ELSE lpc' = "rest" /\ UNCHANGED ep_i
    /\ UNCHANGED <<g_stop, handler, opts, polls, lfault>>
    /\ UNCHANGED <<builderVars, sessVars, usbVars, ackVars>>

\* main.cpp:573-578  the for condition, then the endpoint is polled
ListenFor ==
    /\ lpc = "listen_for"
    /\ IF ContinueFor(ep_i, NEps(opts.listen_ep), g_stop)
       THEN polls' = Polled("listen") /\ lpc' = "listen_recv"
       ELSE lpc' = "listen_while" /\ UNCHANGED polls
    /\ UNCHANGED <<g_stop, handler, opts, ep_i, lfault>>
    /\ UNCHANGED <<builderVars, sessVars, usbVars, ackVars>>

\* main.cpp:578-589  try_recv returns or throws; ++i
ListenRecv ==
    /\ lpc = "listen_recv"
    /\ \E t \in InterruptResults :
          IF try_recv(t.r, t.transferred).throws
          THEN lfault' = TRUE /\ lpc' = "cleanup" /\ UNCHANGED ep_i
          ELSE ep_i' = ep_i + 1 /\ lpc' = "listen_for" /\ UNCHANGED lfault
    /\ UNCHANGED <<g_stop, handler, opts, polls>>
    /\ UNCHANGED <<builderVars, sessVars, usbVars, ackVars>>

\* main.cpp:19  SIGINT: handle_sigint sets the flag; without the handler the
\* signal ends the process
Signal ==
    /\ lpc \notin {"start", "cleanup", "rest", "killed"}
    /\ IF handler
       THEN g_stop' = TRUE /\ UNCHANGED lpc
       ELSE lpc' = "killed" /\ UNCHANGED g_stop
    /\ UNCHANGED <<handler, opts, ep_i, polls, lfault>>
    /\ UNCHANGED <<builderVars, sessVars, usbVars, ackVars>>

\* the steps main takes by itself
ListenProgram ==
    \/ ListenArgs
    \/ RawSend
    \/ RawWhile
    \/ RawRecv
    \/ RawBreak
    \/ ScanSub
    \/ ListenEnter
    \/ ListenWhile
    \/ ListenFor
    \/ ListenRecv

NextListen ==
    \/ ListenProgram
    \/ Signal

\* main runs on: every try_recv returns within its timeout
SpecListen == Init /\ [][NextListen]_vars /\ WF_vars(ListenProgram)

\* main is inside one of the two listen loops
InLoop ==
    lpc \in {"raw_while", "raw_recv", "raw_break",
             "listen_while", "listen_for", "listen_recv"}

\* a receive attempt is in progress
Receiving == lpc \in {"raw_recv", "listen_recv"}

SlotAt(i, off) == [k \in 0..3 |-> ret[Len(ret) - 8 + i][off + k]]

\* the bindings of the call that are neither keyboard nor multimedia
DirectButtons == {b \in InRangeButtons : call.args[b][0] \notin {\h90, \h92}}

\* C29: with every action of `changes` produced by parse_action, each of the
\* 16 four-byte slots of the 8 mapping packets sums to 0x55 mod 256: the
\* factory defaults, every table literal, every accepted fire:<speed>:<repeat>
\* and the marker 05 00 00 50 written for 0x90 and 0x92 actions; the bytes of
\* a direct action are the slot itself, so none of them starts with 0x90 or
\* 0x92.
C29_SlotsSumTo55 ==
    ButtonCallReturned /\ Len(ret) >= 8 =>
        /\ \A i \in 1..8 : \A off \in {6, 10} :
              (SlotAt(i, off)[0] + SlotAt(i, off)[1] + SlotAt(i, off)[2]
                  + SlotAt(i, off)[3]) % 256 = \h55
        /\ \A b \in DirectButtons :
              /\ SlotBytes(b) = call.args[b]
              /\ SlotBytes(b)[0] \notin {\h90, \h92}
        /\ \A b \in InRangeButtons \ DirectButtons :
              SlotBytes(b) = AB(\h05, \h00, \h00, \h50)

\* fire:255:3 bound to button 11: the slot is 04 ff 03 4f, whose sum wraps
C29_Witness ==
    /\ ButtonCallReturned
    /\ DOMAIN call.args = {11}
    /\ call.args[11] = AB(\h04, \hff, \h03, \h4f)
    /\ Len(ret) = 8
    /\ SlotAt(6, 10) = AB(\h04, \hff, \h03, \h4f)

---------------------------------------------------------------------------
(* send_sequence against a device that acknowledges each accepted packet   *)
(* once, after a delay of its own (main.cpp:89-131, usb.cpp:105-124).  The *)
(* endpoint is empty when the sequence starts (main.cpp:397 drains it).    *)

\* the longest sequence sent
MaxPackets == 3

\* main.cpp:123-127  send_sequence is entered with a sequence of n packets
AckStart ==
    /\ apc = "start"
    /\ \E n \in 1..MaxPackets : n_pkts' = n
    /\ cmd_i' = 1
    /\ apc' = "send"
    /\ UNCHANGED <<att, agot, in_device, ep_in, consumed>>
    /\ UNCHANGED <<builderVars, sessVars, usbVars, listenVars>>

\* main.cpp:94-112  mouse.send: the device accepts the packet, or the
\* transfer fails and send throws
AckSend ==
    /\ apc = "send"
    /\ \E r \in ControlResults :
          IF send(r).throws
          THEN apc' = "fault" /\ UNCHANGED <<att, agot, in_device>>
          ELSE /\ in_device' = in_device \cup {cmd_i}
               /\ att' = 0
               /\ agot' = 0
               /\ apc' = "poll"
    /\ UNCHANGED <<n_pkts, cmd_i, ep_in, consumed>>
    /\ UNCHANGED <<builderVars, sessVars, usbVars, listenVars>>

\* the device emits the acknowledgement of the oldest packet it still owes
DeviceAck ==
    /\ in_device # {}
    /\ \E j \in in_device :
          /\ \A i \in in_device : j <= i
          /\ in_device' = in_device \ {j}
          /\ ep_in' = Append(ep_in, j)
    /\ UNCHANGED <<apc, n_pkts, cmd_i, att, agot, consumed>>
    /\ UNCHANGED <<builderVars, sessVars, usbVars, listenVars>>

\* main.cpp:113-114  one try_recv of 100 ms: it returns the acknowledgement
\* waiting on the endpoint, times out when there is none, or fails
AckTryRecv ==
    /\ apc = "poll"
    /\ PollAgain(att, agot)
    /\ IF ep_in # <<>>
       THEN /\ agot' = try_recv(0, M913_PACKET_SIZE).value
            /\ att' = att + 1
            /\ consumed' = Append(consumed, [window |-> cmd_i, ack |-> Head(ep_in)])
            /\ ep_in' = Tail(ep_in)
            /\ UNCHANGED apc
       ELSE \E r \in {-7, -4} :
               IF try_recv(r, 0).throws
               THEN apc' = "fault" /\ UNCHANGED <<att, agot, ep_in, consumed>>
               ELSE /\ agot' = try_recv(r, 0).value
                    /\ att' = att + 1
                    /\ UNCHANGED <<apc, ep_in, consumed>>
    /\ UNCHANGED <<n_pkts, cmd_i, in_device>>
    /\ UNCHANGED <<builderVars, sessVars, usbVars, listenVars>>

\* main.cpp:113-120 and 128  the loop of send_cmd ends; the next packet, if any
AckEndCmd ==
    /\ apc = "poll"
    /\ ~PollAgain(att, agot)
    /\ IF cmd_i < n_pkts
       THEN cmd_i' = cmd_i + 1 /\ apc' = "send"
       ELSE apc' = "done" /\ UNCHANGED cmd_i
    /\ UNCHANGED <<n_pkts, att, agot, in_device, ep_in, consumed>>
    /\ UNCHANGED <<builderVars, sessVars, usbVars, listenVars>>

NextAck ==
    \/ AckStart
    \/ AckSend
    \/ DeviceAck
    \/ AckTryRecv
    \/ AckEndCmd

SpecAck == Init /\ [][NextAck]_vars

\* C30: every acknowledgement send_cmd reads during the polling window of
\* packet k was emitted for packet k; the acknowledgement of an earlier
\* packet is never taken for that of a later one.
C30_AckOfOwnPacket ==
    \A i \in 1..Len(consumed) : consumed[i].ack = consumed[i].window

====
